---- MODULE Spec2Model ----
(***************************************************************************)
(* Conference Slack form worker: the in-memory fixed-window rate limiter   *)
(* (lib/rateLimiter.ts), the Slack client's channel creation with name     *)
(* collision retries (lib/slack.ts), input validation and sanitization     *)
(* (utils/validation.ts) and the POST /api/submit handler (index.ts).      *)
(*                                                                         *)
(* Eight specifications share the variables:                               *)
(*   Spec         concurrently interleaved /api/submit requests, each      *)
(*                suspending only at its awaited collaborator calls;       *)
(*   SpecSolo     one /api/submit request against every kind of failure    *)
(*                of conversations.create and every depth of collision;    *)
(*   SpecLimiter  direct calls of the RateLimiter API under a clock;       *)
(*   SpecWindow   a burst of checks on one key with a fixed limit, the     *)
(*                time and result of every check kept;                     *)
(*   SpecSoloFair SpecSolo with every awaited call resolving eventually;   *)
(*   SpecSanitize sanitizeCompanyName applied to a text again and again;   *)
(*   SpecTurns    three /api/submit requests one after another;            *)
(*   SpecPreview  two /api/submit requests one after another, with         *)
(*                /api/sanitize-preview requests at any moment.            *)
(***************************************************************************)
EXTENDS Integers, Sequences, FiniteSets, TLC

\* ------------------------------------------------------------------ bounds
MaxTicks == 3      \* clock advances explored by SpecLimiter and SpecWindow
MaxCalls == 3      \* RateLimiter API calls explored by SpecLimiter
MaxLimit == 2      \* largest limit explored by SpecWindow
MaxWindows == 1    \* whole windows the clock may advance under Spec
MaxBurst == 5      \* checks of one key explored by SpecWindow
MaxPasses == 3     \* applications of sanitizeCompanyName under SpecSanitize
MaxTail == 3       \* characters after the run of letters of a text of SpecSanitize
MaxPreviews == 2   \* /api/sanitize-preview requests explored by SpecPreview

\* ------------------------------------------------------- program constants
MsPerSec == 1000
maxAttempts == 10
SliceLen == 67

VARIABLES
    now,        \* Date.now(), epoch milliseconds
    ticks,      \* number of clock advances so far (bounded exploration)
    store,      \* RateLimiter.store: Map<string, RateLimitEntry>
    last,       \* the latest RateLimiter API call and what it returned
    ncalls,     \* number of RateLimiter API calls made under SpecLimiter
    env,        \* Env: RATE_LIMIT and RATE_LIMIT_WINDOW_SEC
    channels,   \* names of the channels existing in the Slack workspace
    faults,     \* the ways conversations.create fails in this run
    sub,        \* the /api/submit invocations, one record per request
    hist,       \* the results of a burst of checks on one key (SpecWindow)
    upstream,   \* the ways chat.postMessage and Postmark fail in this run
    sanitized,  \* a text and the results of sanitizing it again (SpecSanitize)
    previews    \* the /api/sanitize-preview requests so far and the latest one

vars == <<now, ticks, store, last, ncalls, env, channels, faults, sub, hist,
          upstream, sanitized, previews>>

Max(a, b) == IF a >= b THEN a ELSE b
Range(seq) == {seq[i] : i \in 1..Len(seq)}

\* ------------------------------------------------------------ RateLimiter
\* RateLimitEntry
Entry(count, resetTime) == [count |-> count, resetTime |-> resetTime]

\* RateLimitResult
Result(allowed, remaining, resetAt) ==
    [allowed |-> allowed, remaining |-> remaining, resetAt |-> resetAt]

\* A plausible slip: the expiry test written with > instead of >=.
ExpiredStrict(st, key, t) == key \notin DOMAIN st \/ t > st[key].resetTime

\* `!entry || now >= entry.resetTime`
Expired(st, key, t) == key \notin DOMAIN st \/ t >= st[key].resetTime

\* A plausible slip: the limit test written with > instead of >=.
checkAndIncrementOffByOne(st, key, limit, windowSec, t) ==
    LET windowMs == windowSec * MsPerSec IN
    IF limit <= 0
    THEN [store |-> st, result |-> Result(FALSE, 0, t + windowMs)]
    ELSE IF Expired(st, key, t)
    THEN [store  |-> (key :> Entry(1, t + windowMs)) @@ st,
          result |-> Result(TRUE, Max(0, limit - 1), t + windowMs)]
    ELSE IF st[key].count > limit
    THEN [store |-> st, result |-> Result(FALSE, 0, st[key].resetTime)]
    ELSE [store  |-> [st EXCEPT ![key].count = @ + 1],
          result |-> Result(TRUE, Max(0, limit - (st[key].count + 1)),
                            st[key].resetTime)]

\* A plausible slip: a blocked call is counted too.
checkAndIncrementCountingBlocked(st, key, limit, windowSec, t) ==
    LET windowMs == windowSec * MsPerSec IN
    IF limit <= 0
    THEN [store |-> st, result |-> Result(FALSE, 0, t + windowMs)]
    ELSE IF Expired(st, key, t)
    THEN [store  |-> (key :> Entry(1, t + windowMs)) @@ st,
          result |-> Result(TRUE, Max(0, limit - 1), t + windowMs)]
    ELSE IF st[key].count >= limit
    THEN [store |-> [st EXCEPT ![key].count = @ + 1],
          result |-> Result(FALSE, 0, st[key].resetTime)]
    ELSE [store  |-> [st EXCEPT ![key].count = @ + 1],
          result |-> Result(TRUE, Max(0, limit - (st[key].count + 1)),
                            st[key].resetTime)]

\* A plausible slip: the zero-limit test written with = instead of <=.
checkAndIncrementZeroOnly(st, key, limit, windowSec, t) ==
    LET windowMs == windowSec * MsPerSec IN
    IF limit = 0
    THEN [store |-> st, result |-> Result(FALSE, 0, t + windowMs)]
    ELSE IF Expired(st, key, t)
    THEN [store  |-> (key :> Entry(1, t + windowMs)) @@ st,
          result |-> Result(TRUE, Max(0, limit - 1), t + windowMs)]
    ELSE IF st[key].count >= limit
    THEN [store |-> st, result |-> Result(FALSE, 0, st[key].resetTime)]
    ELSE [store  |-> [st EXCEPT ![key].count = @ + 1],
          result |-> Result(TRUE, Max(0, limit - (st[key].count + 1)),
                            st[key].resetTime)]

\* A plausible slip: remaining computed from the count before the increment.
checkAndIncrementStaleRemaining(st, key, limit, windowSec, t) ==
    LET windowMs == windowSec * MsPerSec IN
    IF limit <= 0
    THEN [store |-> st, result |-> Result(FALSE, 0, t + windowMs)]
    ELSE IF Expired(st, key, t)
    THEN [store  |-> (key :> Entry(1, t + windowMs)) @@ st,
          result |-> Result(TRUE, Max(0, limit - 1), t + windowMs)]
    ELSE IF st[key].count >= limit
    THEN [store |-> st, result |-> Result(FALSE, 0, st[key].resetTime)]
    ELSE [store  |-> [st EXCEPT ![key].count = @ + 1],
          result |-> Result(TRUE, Max(0, limit - st[key].count),
                            st[key].resetTime)]

\* A plausible slip: a new window starts with count 0 instead of 1.
checkAndIncrementFreshAtZero(st, key, limit, windowSec, t) ==
    LET windowMs == windowSec * MsPerSec IN
    IF limit <= 0
    THEN [store |-> st, result |-> Result(FALSE, 0, t + windowMs)]
    ELSE IF Expired(st, key, t)
    THEN [store  |-> (key :> Entry(0, t + windowMs)) @@ st,
          result |-> Result(TRUE, Max(0, limit - 1), t + windowMs)]
    ELSE IF st[key].count >= limit
    THEN [store |-> st, result |-> Result(FALSE, 0, st[key].resetTime)]
    ELSE [store  |-> [st EXCEPT ![key].count = @ + 1],
          result |-> Result(TRUE, Max(0, limit - (st[key].count + 1)),
                            st[key].resetTime)]

\* A plausible slip: an allowed call inside the window moves the end of
\* the window (a sliding window).
checkAndIncrementSliding(st, key, limit, windowSec, t) ==
    LET windowMs == windowSec * MsPerSec IN
    IF limit <= 0
    THEN [store |-> st, result |-> Result(FALSE, 0, t + windowMs)]
    ELSE IF Expired(st, key, t)
    THEN [store  |-> (key :> Entry(1, t + windowMs)) @@ st,
          result |-> Result(TRUE, Max(0, limit - 1), t + windowMs)]
    ELSE IF st[key].count >= limit
    THEN [store |-> st, result |-> Result(FALSE, 0, st[key].resetTime)]
    ELSE [store  |-> [st EXCEPT ![key] = Entry(@.count + 1, t + windowMs)],
          result |-> Result(TRUE, Max(0, limit - (st[key].count + 1)),
                            t + windowMs)]

\* RateLimiter.checkAndIncrement(key, limit, windowSec) at Date.now() = t:
\* the store after the call and the RateLimitResult returned.
checkAndIncrement(st, key, limit, windowSec, t) ==
    LET windowMs == windowSec * MsPerSec IN
    IF limit <= 0
    THEN [store |-> st, result |-> Result(FALSE, 0, t + windowMs)]
    ELSE IF Expired(st, key, t)
    THEN [store  |-> (key :> Entry(1, t + windowMs)) @@ st,
          result |-> Result(TRUE, Max(0, limit - 1), t + windowMs)]
    ELSE IF st[key].count >= limit
    THEN [store |-> st, result |-> Result(FALSE, 0, st[key].resetTime)]
    ELSE [store  |-> [st EXCEPT ![key].count = @ + 1],
          result |-> Result(TRUE, Max(0, limit - (st[key].count + 1)),
                            st[key].resetTime)]

\* A plausible slip: getStatus tests expiry with > instead of >=.
getStatusStrict(st, key, limit, t) ==
    IF key \notin DOMAIN st \/ t > st[key].resetTime
    THEN [count |-> 0, remaining |-> limit, resetAt |-> -1]
    ELSE [count |-> st[key].count,
          remaining |-> Max(0, limit - st[key].count),
          resetAt |-> st[key].resetTime]

\* RateLimiter.getStatus(key, limit) at Date.now() = t; resetAt null is -1.
getStatus(st, key, limit, t) ==
    IF Expired(st, key, t)
    THEN [count |-> 0, remaining |-> limit, resetAt |-> -1]
    ELSE [count |-> st[key].count,
          remaining |-> Max(0, limit - st[key].count),
          resetAt |-> st[key].resetTime]

\* getStatus as a step on the store: it reads the entry and writes nothing.
getStatusStep(st, key, limit, t) ==
    [store |-> st, result |-> getStatus(st, key, limit, t)]

\* A plausible slip: the comparison of cleanup is the wrong way round, so
\* that it removes the entries still in their window.
cleanupReversed(st, t) ==
    LET kept == {k \in DOMAIN st : ~(t <= st[k].resetTime)} IN
    [k \in kept |-> st[k]]

\* A plausible slip: cleanup tests expiry with > instead of >=.
cleanupStrict(st, t) ==
    LET kept == {k \in DOMAIN st : ~(t > st[k].resetTime)} IN
    [k \in kept |-> st[k]]

\* RateLimiter.cleanup() at Date.now() = t: the store without expired entries.
cleanup(st, t) ==
    LET kept == {k \in DOMAIN st : ~(t >= st[k].resetTime)} IN
    [k \in kept |-> st[k]]

\* A plausible slip: the origin key built with the identity namespace.
IpKeyInEmailNamespace(ip) == "email:" \o ip

\* `ip:${ip}` and `email:${email}`
IpKey(ip) == "ip:" \o ip
EmailKey(email) == "email:" \o email

\* checkIpRateLimit(ip, limit, windowSec)
checkIpRateLimit(st, ip, limit, windowSec, t) ==
    checkAndIncrement(st, IpKey(ip), limit, windowSec, t)

\* checkEmailRateLimit(email, limit, windowSec)
checkEmailRateLimit(st, email, limit, windowSec, t) ==
    checkAndIncrement(st, EmailKey(email), limit, windowSec, t)

\* -------------------------------------------------- utils/validation.ts
\* Text is a sequence of characters; a character is a one-element string,
\* except the named tokens below that stand for one code point each.
LowerLetters == {"a", "b", "c", "e", "n", "z"}
Digits == {"0", "1", "2", "9"}
Whitespace == {" ", "TAB"}
CombiningMarks == {"U+0301", "U+0303"}

\* String.prototype.toLowerCase on one character
ToLowerChar(c) ==
    CASE c = "A" -> "a"
      [] c = "B" -> "b"
      [] c = "C" -> "c"
      [] c = "E" -> "e"
      [] c = "N" -> "n"
      [] c = "Z" -> "z"
      [] c = "E-ACUTE" -> "e-acute"
      [] c = "N-TILDE" -> "n-tilde"
      [] OTHER -> c

\* String.prototype.normalize('NFD') on one character
DecomposeChar(c) ==
    CASE c = "e-acute" -> <<"e", "U+0301">>
      [] c = "n-tilde" -> <<"n", "U+0303">>
      [] OTHER -> <<c>>

RECURSIVE MapLower(_)
MapLower(t) ==
    IF t = <<>> THEN <<>> ELSE <<ToLowerChar(Head(t))>> \o MapLower(Tail(t))

RECURSIVE NormalizeNFD(_)
NormalizeNFD(t) ==
    IF t = <<>> THEN <<>> ELSE DecomposeChar(Head(t)) \o NormalizeNFD(Tail(t))

\* .replace(/[\u0300-\u036f]/g, '')
StripMarks(t) == SelectSeq(t, LAMBDA c : c \notin CombiningMarks)

\* .replace(/\s+/g, '-')
RECURSIVE WhitespaceToDash(_)
WhitespaceToDash(t) ==
    IF t = <<>> THEN <<>>
    ELSE IF Head(t) \in Whitespace
    THEN IF Len(t) > 1 /\ t[2] \in Whitespace
         THEN WhitespaceToDash(Tail(t))
         ELSE <<"-">> \o WhitespaceToDash(Tail(t))
    ELSE <<Head(t)>> \o WhitespaceToDash(Tail(t))

\* .replace(/[^a-z0-9-]/g, '')
KeepSlugChars(t) ==
    SelectSeq(t, LAMBDA c : c \in LowerLetters \cup Digits \cup {"-"})

\* A plausible slip: .replace(/--/g, '-'), which halves a run of dashes.
RECURSIVE CollapseDashesPairwise(_)
CollapseDashesPairwise(t) ==
    IF t = <<>> THEN <<>>
    ELSE IF Head(t) = "-" /\ Len(t) > 1 /\ t[2] = "-"
    THEN <<"-">> \o CollapseDashesPairwise(Tail(Tail(t)))
    ELSE <<Head(t)>> \o CollapseDashesPairwise(Tail(t))

\* .replace(/-+/g, '-')
RECURSIVE CollapseDashes(_)
CollapseDashes(t) ==
    IF t = <<>> THEN <<>>
    ELSE IF Head(t) = "-" /\ Len(t) > 1 /\ t[2] = "-"
    THEN CollapseDashes(Tail(t))
    ELSE <<Head(t)>> \o CollapseDashes(Tail(t))

RECURSIVE TrimLeft(_)
TrimLeft(t) ==
    IF t # <<>> /\ Head(t) = "-" THEN TrimLeft(Tail(t)) ELSE t

RECURSIVE TrimRight(_)
TrimRight(t) ==
    IF t # <<>> /\ t[Len(t)] = "-"
    THEN TrimRight(SubSeq(t, 1, Len(t) - 1)) ELSE t

\* A plausible slip: .replace(/^-+/g, ''), which leaves the dashes at the end.
TrimDashesLeftOnly(t) == TrimLeft(t)

\* .replace(/^-+|-+$/g, '')
TrimDashes(t) == TrimRight(TrimLeft(t))

\* .slice(0, n)
Slice(t, n) == SubSeq(t, 1, IF Len(t) < n THEN Len(t) ELSE n)

\* sanitizeCompanyName(raw)
sanitizeCompanyName(raw) ==
    Slice(TrimDashes(CollapseDashes(KeepSlugChars(WhitespaceToDash(
        StripMarks(NormalizeNFD(MapLower(raw))))))), SliceLen)

\* The characters of a text joined into one string.
RECURSIVE Join(_)
Join(t) == IF t = <<>> THEN "" ELSE Head(t) \o Join(Tail(t))

\* A parsed JSON body has hasCompanyName / hasEmail FALSE for a field that
\* is absent or not a string.
\* z.string().email(): the addresses of the model that zod accepts.
ValidEmails == {"u@x.io", "v@x.io"}

\* FormSubmissionSchema.parse(input): the ZodError messages, in field order
SchemaErrors(input) ==
    (IF ~input.hasCompanyName THEN <<"companyName: Required">>
     ELSE IF Len(input.companyName) < 1
     THEN <<"companyName: Company name is required">>
     ELSE <<>>)
    \o
    (IF ~input.hasEmail THEN <<"email: Required">>
     ELSE IF input.email \notin ValidEmails
     THEN <<"email: Invalid email format">>
     ELSE <<>>)

\* A plausible slip: the sanitized name is not tested for emptiness.
validateAndSanitizeKeepingEmpty(input) ==
    IF SchemaErrors(input) # <<>>
    THEN [ok |-> FALSE, errors |-> SchemaErrors(input),
          companyName |-> <<>>, email |-> "", sanitizedCompanyName |-> ""]
    ELSE [ok |-> TRUE, errors |-> <<>>,
          companyName |-> input.companyName, email |-> input.email,
          sanitizedCompanyName |-> Join(sanitizeCompanyName(input.companyName))]

\* validateAndSanitize(input)
validateAndSanitize(input) ==
    IF SchemaErrors(input) # <<>>
    THEN [ok |-> FALSE, errors |-> SchemaErrors(input),
          companyName |-> <<>>, email |-> "", sanitizedCompanyName |-> ""]
    ELSE IF sanitizeCompanyName(input.companyName) = <<>>
    THEN [ok |-> FALSE,
          errors |-> <<"Company name contains no valid characters after sanitization">>,
          companyName |-> <<>>, email |-> "", sanitizedCompanyName |-> ""]
    ELSE [ok |-> TRUE, errors |-> <<>>,
          companyName |-> input.companyName, email |-> input.email,
          sanitizedCompanyName |-> Join(sanitizeCompanyName(input.companyName))]

\* ------------------------------------------------------------ lib/slack.ts
\* What fetch gives back to slackRequest: it throws, or it resolves to an
\* HTTP response with a status, a Retry-After header (-1: none) and a JSON
\* body {ok, error, channel: {name}} ("" stands for an absent field).
FetchThrows ==
    [kind |-> "throw", status |-> 0, retryAfter |-> -1,
     ok |-> FALSE, error |-> "", channel |-> ""]
HttpResponse(status, retryAfter) ==
    [kind |-> "http", status |-> status, retryAfter |-> retryAfter,
     ok |-> FALSE, error |-> "", channel |-> ""]
SlackJson(ok, error, channel) ==
    [kind |-> "http", status |-> 200, retryAfter |-> -1,
     ok |-> ok, error |-> error, channel |-> channel]

\* The `details` that slackRequest and createChannel put next to an error
\* code; the only HTTP error status of the model is 500, and a thrown
\* error's message is "fetch failed".
ErrorDetails(error) ==
    CASE error = "rate_limited" -> "Slack API rate limit exceeded"
      [] error = "http_error" -> "HTTP 500: Internal Server Error"
      [] error = "network_error" -> "fetch failed"
      [] error = "invalid_response" ->
           "Channel creation succeeded but response format was unexpected"
      [] error = "max_attempts_exceeded" ->
           "Failed to create channel after " \o ToString(maxAttempts)
             \o " attempts due to name collisions"
      [] OTHER -> "Slack API returned an error"

\* SlackError
SlackError(error, retryAfter) ==
    [ok |-> FALSE, error |-> error, details |-> ErrorDetails(error),
     retryAfter |-> retryAfter, channel |-> ""]

\* SlackClient.slackRequest: the response data, or a SlackError
slackRequest(resp) ==
    IF resp.kind = "throw" THEN SlackError("network_error", -1)
    ELSE IF resp.status = 429
    THEN SlackError("rate_limited",
                    IF resp.retryAfter = -1 THEN 60 ELSE resp.retryAfter)
    ELSE IF ~(resp.status >= 200 /\ resp.status <= 299)
    THEN SlackError("http_error", -1)
    ELSE IF ~resp.ok
    THEN SlackError(IF resp.error = "" THEN "unknown_error" ELSE resp.error, -1)
    ELSE [ok |-> TRUE, error |-> "", details |-> "", retryAfter |-> -1,
          channel |-> resp.channel]

\* SlackClient.createChannelName
createChannelName(sanitizedCompanyName) == "ext-theguild-" \o sanitizedCompanyName

\* A plausible slip: the suffix is attemptCount instead of attemptCount + 1.
RequestedNameOffByOne(sanitizedName, attemptCount) ==
    IF attemptCount = 0
    THEN createChannelName(sanitizedName)
    ELSE createChannelName(sanitizedName) \o "-" \o ToString(attemptCount)

\* The name createChannel requests when attemptCount collisions were seen.
RequestedName(sanitizedName, attemptCount) ==
    IF attemptCount = 0
    THEN createChannelName(sanitizedName)
    ELSE createChannelName(sanitizedName) \o "-" \o ToString(attemptCount + 1)

\* A plausible slip: a taken name is used as if the channel had been created.
createChannelStepReusingTaken(channelName, attemptCount, result) ==
    IF ~result.ok
    THEN IF result.error = "name_taken"
         THEN [returns |-> TRUE, attemptCount |-> attemptCount,
               result |-> [ok |-> TRUE, error |-> "", details |-> "",
                           retryAfter |-> -1, channel |-> channelName]]
         ELSE [returns |-> TRUE, attemptCount |-> attemptCount,
               result |-> result]
    ELSE IF result.channel # ""
    THEN [returns |-> TRUE, attemptCount |-> attemptCount, result |-> result]
    ELSE [returns |-> TRUE, attemptCount |-> attemptCount,
          result |-> SlackError("invalid_response", -1)]

\* A plausible slip: the loop bound written with <= instead of <.
createChannelStepOneMore(channelName, attemptCount, result) ==
    IF ~result.ok
    THEN IF result.error = "name_taken"
         THEN IF attemptCount + 1 <= maxAttempts
              THEN [returns |-> FALSE, attemptCount |-> attemptCount + 1,
                    result |-> result]
              ELSE [returns |-> TRUE, attemptCount |-> attemptCount + 1,
                    result |-> SlackError("max_attempts_exceeded", -1)]
         ELSE [returns |-> TRUE, attemptCount |-> attemptCount,
               result |-> result]
    ELSE IF result.channel # ""
    THEN [returns |-> TRUE, attemptCount |-> attemptCount, result |-> result]
    ELSE [returns |-> TRUE, attemptCount |-> attemptCount,
          result |-> SlackError("invalid_response", -1)]

\* A plausible slip: every error is retried like a name collision.
createChannelStepRetryingAll(channelName, attemptCount, result) ==
    IF ~result.ok
    THEN IF attemptCount + 1 < maxAttempts
         THEN [returns |-> FALSE, attemptCount |-> attemptCount + 1,
               result |-> result]
         ELSE [returns |-> TRUE, attemptCount |-> attemptCount + 1,
               result |-> SlackError("max_attempts_exceeded", -1)]
    ELSE IF result.channel # ""
    THEN [returns |-> TRUE, attemptCount |-> attemptCount, result |-> result]
    ELSE [returns |-> TRUE, attemptCount |-> attemptCount,
          result |-> SlackError("invalid_response", -1)]

\* One pass of createChannel's loop body, entered with attemptCount <
\* maxAttempts, on the result of its conversations.create request for
\* channelName: whether createChannel returns, the attemptCount after, and
\* the result returned (when the loop is left after maxAttempts collisions,
\* the max_attempts_exceeded error).
createChannelStep(channelName, attemptCount, result) ==
    IF ~result.ok
    THEN IF result.error = "name_taken"
         THEN IF attemptCount + 1 < maxAttempts
              THEN [returns |-> FALSE, attemptCount |-> attemptCount + 1,
                    result |-> result]
              ELSE [returns |-> TRUE, attemptCount |-> attemptCount + 1,
                    result |-> SlackError("max_attempts_exceeded", -1)]
         ELSE [returns |-> TRUE, attemptCount |-> attemptCount,
               result |-> result]
    ELSE IF result.channel # ""
    THEN [returns |-> TRUE, attemptCount |-> attemptCount, result |-> result]
    ELSE [returns |-> TRUE, attemptCount |-> attemptCount,
          result |-> SlackError("invalid_response", -1)]

\* The Slack workspace answering conversations.create for a name: it creates
\* the channel only when the name is free, answers name_taken when it is
\* not, and may fail in any other way without creating anything.
CreateResponses(name, existing, failures) ==
    (IF name \in existing
     THEN {SlackJson(FALSE, "name_taken", "")}
     ELSE {SlackJson(TRUE, "", name)})
    \cup failures

\* Failures of a conversations.create request other than name_taken: a
\* network error, Slack's own rate limiting with and without a Retry-After
\* header, an HTTP error, an API error with and without an error code, and
\* a success response without the channel.
AllFailures ==
    {FetchThrows, HttpResponse(429, 120), HttpResponse(429, -1),
     HttpResponse(500, -1), SlackJson(FALSE, "invalid_auth", ""),
     SlackJson(FALSE, "", ""), SlackJson(TRUE, "", "")}

\* A plausible slip: a failed chat.postMessage is thrown, not returned.
logToChannelThrowing(resp) ==
    LET result == slackRequest(resp) IN
    IF ~result.ok THEN [ok |-> FALSE, throws |-> TRUE]
    ELSE [ok |-> TRUE, throws |-> FALSE]

\* SlackClient.logToChannel on the answer to its one chat.postMessage
\* request: the SlackError of the request, or ok; it never throws.
logToChannel(resp) ==
    LET result == slackRequest(resp) IN
    IF ~result.ok THEN [ok |-> FALSE, throws |-> FALSE]
    ELSE [ok |-> TRUE, throws |-> FALSE]

\* The answers to a chat.postMessage request: the message is posted, or the
\* request fails in one of the given ways.
LogResponses(failures) == {SlackJson(TRUE, "", "")} \cup failures

\* Failures of a chat.postMessage request.
LogFailures ==
    {FetchThrows, HttpResponse(429, -1), HttpResponse(500, -1),
     SlackJson(FALSE, "channel_not_found", "")}

\* ------------------------------------------------------------ lib/email.ts
\* What fetch gives back to EmailClient.sendWelcomeEmail: it throws, or it
\* resolves to an HTTP response with a status and a JSON body whose
\* MessageID is "" when absent.
PostmarkThrows == [kind |-> "throw", status |-> 0, MessageID |-> ""]
PostmarkResponse(status, MessageID) ==
    [kind |-> "http", status |-> status, MessageID |-> MessageID]

\* EmailResult
EmailResult(ok, error) == [ok |-> ok, error |-> error]

\* A plausible slip: a 2xx response is taken for an acknowledgment.
EmailClientSendTrustingStatus(resp) ==
    IF resp.kind = "throw"
    THEN EmailResult(FALSE, "Email sending failed: fetch failed")
    ELSE IF ~(resp.status >= 200 /\ resp.status <= 299)
    THEN EmailResult(FALSE, "Postmark API error: HTTP " \o ToString(resp.status))
    ELSE EmailResult(TRUE, "")

\* EmailClient.sendWelcomeEmail on the answer to its one request
EmailClientSend(resp) ==
    IF resp.kind = "throw"
    THEN EmailResult(FALSE, "Email sending failed: fetch failed")
    ELSE IF ~(resp.status >= 200 /\ resp.status <= 299)
    THEN EmailResult(FALSE, "Postmark API error: HTTP " \o ToString(resp.status))
    ELSE IF resp.MessageID = ""
    THEN EmailResult(FALSE, "Postmark API response missing MessageID")
    ELSE EmailResult(TRUE, "")

\* sendWelcomeEmail(params, apiKey): the EmailResult, and whether a request
\* went to Postmark.
sendWelcomeEmail(apiKey, resp) ==
    IF apiKey = ""
    THEN [result |-> EmailResult(FALSE, "Missing POSTMARK_API_KEY"),
          requested |-> FALSE]
    ELSE [result |-> EmailClientSend(resp), requested |-> TRUE]

\* The answers to a request to Postmark: the email is accepted, or the
\* request fails in one of the given ways.
PostmarkResponses(failures) == {PostmarkResponse(200, "m-1")} \cup failures

\* Failures of a request to Postmark: a network error, an HTTP error, and
\* a 200 response without MessageID.
PostmarkFailures ==
    {PostmarkThrows, PostmarkResponse(422, ""), PostmarkResponse(200, "")}

\* --------------------------------------------------------------- index.ts
\* A request to POST /api/submit: the two origin headers ("" when absent)
\* and the body, which is unparseable (BadJson) or a JSON object.
BadJson ==
    [json |-> FALSE, hasCompanyName |-> FALSE, companyName |-> <<>>,
     hasEmail |-> FALSE, email |-> ""]
JsonBody(companyName, email) ==
    [json |-> TRUE, hasCompanyName |-> TRUE, companyName |-> companyName,
     hasEmail |-> TRUE, email |-> email]
JsonBodyWithoutEmail(companyName) ==
    [json |-> TRUE, hasCompanyName |-> TRUE, companyName |-> companyName,
     hasEmail |-> FALSE, email |-> ""]
Request(cf, xff, body) == [cf |-> cf, xff |-> xff, body |-> body]

\* A plausible slip: X-Forwarded-For is looked at first.
ClientIPForwardedFirst(req) ==
    IF req.xff # "" THEN req.xff ELSE IF req.cf # "" THEN req.cf ELSE "unknown"

\* request.headers.get('CF-Connecting-IP') ||
\* request.headers.get('X-Forwarded-For') || 'unknown'
ClientIP(req) ==
    IF req.cf # "" THEN req.cf ELSE IF req.xff # "" THEN req.xff ELSE "unknown"

\* One collaborator or limiter call of a submission, in program order.
Call(op, arg, res) == [op |-> op, arg |-> arg, res |-> res]

\* The `users` argument of an inviteGroup call that passes none.
NoUsers == "undefined"

\* What the handler does with the result of createChannel.
\* A plausible slip: after a created channel the handler awaits a
\* membership fetch that it never issues.
AfterCreateChannelStalling(channelResult) ==
    IF ~channelResult.ok THEN "logChannelError" ELSE "getGroupUsers"

\* A plausible slip: the result's ok flag is not looked at.
AfterCreateChannelUnchecked(channelResult) == "inviteGroup"

\* `if (!channelResult.ok) { log; return 502 }`, else on to step 5
AfterCreateChannel(channelResult) ==
    IF ~channelResult.ok THEN "logChannelError" ELSE "inviteGroup"

NoResult == Result(FALSE, 0, 0)
Verdict(result) == IF result.allowed THEN "allowed" ELSE "blocked"
OkOrError(r) == IF r.ok THEN "ok" ELSE "error"

\* No createChannel result yet.
NoChannelResult ==
    [ok |-> FALSE, error |-> "", details |-> "", retryAfter |-> -1,
     channel |-> ""]

\* The handler's locals before the request arrives.
IdleSub ==
    [pc |-> "idle", req |-> Request("", "", BadJson), clientIP |-> "",
     status |-> 0, code |-> "", rlType |-> "", rlRemaining |-> 0,
     errors |-> <<>>, email |-> "", sanitizedCompanyName |-> "",
     ipRateLimit |-> NoResult, emailRateLimit |-> NoResult,
     attemptCount |-> 0, channelName |-> "", channelId |-> "",
     channelResult |-> NoChannelResult, groupInviteError |-> FALSE,
     guestInviteError |-> FALSE, emailSent |-> TRUE,
     partialFailures |-> <<>>, failed |-> {}, calls |-> <<>>,
     message |-> "", emailResult |-> EmailResult(FALSE, "")]

\* A plausible slip: the identity check's verdict is not looked at.
HandleRequestIgnoringEmailLimit(st, req, e, t) ==
    LET ip == ClientIP(req)
        v == validateAndSanitize(req.body)
        ipOut == checkIpRateLimit(st, ip, e.RATE_LIMIT,
                                  e.RATE_LIMIT_WINDOW_SEC, t)
        emOut == checkEmailRateLimit(ipOut.store, v.email, e.RATE_LIMIT,
                                     e.RATE_LIMIT_WINDOW_SEC, t)
        base == [IdleSub EXCEPT !.req = req, !.clientIP = ip]
    IN  IF ~req.body.json
        THEN [store |-> st,
              sub |-> [base EXCEPT !.pc = "done", !.status = 400,
                                   !.code = "INVALID_JSON",
                                   !.message = "Invalid JSON in request body"]]
        ELSE IF ~v.ok
        THEN [store |-> st,
              sub |-> [base EXCEPT !.pc = "done", !.status = 422,
                                   !.code = "VALIDATION_ERROR",
                                   !.message = "Validation failed",
                                   !.errors = v.errors]]
        ELSE IF ~ipOut.result.allowed
        THEN [store |-> ipOut.store,
              sub |-> [base EXCEPT !.pc = "done", !.status = 429,
                         !.code = "rate_limit",
                         !.message = "Rate limit exceeded", !.rlType = "ip",
                         !.rlRemaining = ipOut.result.remaining,
                         !.email = v.email,
                         !.sanitizedCompanyName = v.sanitizedCompanyName,
                         !.ipRateLimit = ipOut.result,
                         !.calls = <<Call("checkIpRateLimit", ip, Verdict(ipOut.result))>>]]
        ELSE [store |-> emOut.store,
              sub |-> [base EXCEPT !.pc = "logInitiation",
                         !.email = v.email,
                         !.sanitizedCompanyName = v.sanitizedCompanyName,
                         !.ipRateLimit = ipOut.result,
                         !.emailRateLimit = emOut.result,
                         !.calls = <<Call("checkIpRateLimit", ip, Verdict(ipOut.result)),
                                     Call("checkEmailRateLimit", v.email, Verdict(emOut.result))>>]]

\* A plausible slip: the identity check is made before the origin check.
HandleRequestEmailFirst(st, req, e, t) ==
    LET ip == ClientIP(req)
        v == validateAndSanitize(req.body)
        emOut == checkEmailRateLimit(st, v.email, e.RATE_LIMIT,
                                     e.RATE_LIMIT_WINDOW_SEC, t)
        ipOut == checkIpRateLimit(emOut.store, ip, e.RATE_LIMIT,
                                  e.RATE_LIMIT_WINDOW_SEC, t)
        base == [IdleSub EXCEPT !.req = req, !.clientIP = ip]
    IN  IF ~req.body.json
        THEN [store |-> st,
              sub |-> [base EXCEPT !.pc = "done", !.status = 400,
                                   !.code = "INVALID_JSON",
                                   !.message = "Invalid JSON in request body"]]
        ELSE IF ~v.ok
        THEN [store |-> st,
              sub |-> [base EXCEPT !.pc = "done", !.status = 422,
                                   !.code = "VALIDATION_ERROR",
                                   !.message = "Validation failed",
                                   !.errors = v.errors]]
        ELSE IF ~emOut.result.allowed
        THEN [store |-> emOut.store,
              sub |-> [base EXCEPT !.pc = "done", !.status = 429,
                         !.code = "rate_limit",
                         !.message = "Rate limit exceeded", !.rlType = "email",
                         !.rlRemaining = emOut.result.remaining,
                         !.email = v.email,
                         !.sanitizedCompanyName = v.sanitizedCompanyName,
                         !.emailRateLimit = emOut.result,
                         !.calls = <<Call("checkEmailRateLimit", v.email, Verdict(emOut.result))>>]]
        ELSE IF ~ipOut.result.allowed
        THEN [store |-> ipOut.store,
              sub |-> [base EXCEPT !.pc = "done", !.status = 429,
                         !.code = "rate_limit",
                         !.message = "Rate limit exceeded", !.rlType = "ip",
                         !.rlRemaining = ipOut.result.remaining,
                         !.email = v.email,
                         !.sanitizedCompanyName = v.sanitizedCompanyName,
                         !.ipRateLimit = ipOut.result,
                         !.emailRateLimit = emOut.result,
                         !.calls = <<Call("checkEmailRateLimit", v.email, Verdict(emOut.result)),
                                     Call("checkIpRateLimit", ip, Verdict(ipOut.result))>>]]
        ELSE [store |-> ipOut.store,
              sub |-> [base EXCEPT !.pc = "logInitiation",
                         !.email = v.email,
                         !.sanitizedCompanyName = v.sanitizedCompanyName,
                         !.ipRateLimit = ipOut.result,
                         !.emailRateLimit = emOut.result,
                         !.calls = <<Call("checkEmailRateLimit", v.email, Verdict(emOut.result)),
                                     Call("checkIpRateLimit", ip, Verdict(ipOut.result))>>]]

\* A plausible slip: the identity increment is not kept for an admitted
\* submission.
HandleRequestDroppingEmailCount(st, req, e, t) ==
    LET ip == ClientIP(req)
        v == validateAndSanitize(req.body)
        ipOut == checkIpRateLimit(st, ip, e.RATE_LIMIT,
                                  e.RATE_LIMIT_WINDOW_SEC, t)
        emOut == checkEmailRateLimit(ipOut.store, v.email, e.RATE_LIMIT,
                                     e.RATE_LIMIT_WINDOW_SEC, t)
        base == [IdleSub EXCEPT !.req = req, !.clientIP = ip]
    IN  IF ~req.body.json
        THEN [store |-> st,
              sub |-> [base EXCEPT !.pc = "done", !.status = 400,
                                   !.code = "INVALID_JSON",
                                   !.message = "Invalid JSON in request body"]]
        ELSE IF ~v.ok
        THEN [store |-> st,
              sub |-> [base EXCEPT !.pc = "done", !.status = 422,
                                   !.code = "VALIDATION_ERROR",
                                   !.message = "Validation failed",
                                   !.errors = v.errors]]
        ELSE IF ~ipOut.result.allowed
        THEN [store |-> ipOut.store,
              sub |-> [base EXCEPT !.pc = "done", !.status = 429,
                         !.code = "rate_limit",
                         !.message = "Rate limit exceeded", !.rlType = "ip",
                         !.rlRemaining = ipOut.result.remaining,
                         !.email = v.email,
                         !.sanitizedCompanyName = v.sanitizedCompanyName,
                         !.ipRateLimit = ipOut.result,
                         !.calls = <<Call("checkIpRateLimit", ip, Verdict(ipOut.result))>>]]
        ELSE IF ~emOut.result.allowed
        THEN [store |-> emOut.store,
              sub |-> [base EXCEPT !.pc = "done", !.status = 429,
                         !.code = "rate_limit",
                         !.message = "Rate limit exceeded", !.rlType = "email",
                         !.rlRemaining = emOut.result.remaining,
                         !.email = v.email,
                         !.sanitizedCompanyName = v.sanitizedCompanyName,
                         !.ipRateLimit = ipOut.result,
                         !.emailRateLimit = emOut.result,
                         !.calls = <<Call("checkIpRateLimit", ip, Verdict(ipOut.result)),
                                     Call("checkEmailRateLimit", v.email, Verdict(emOut.result))>>]]
        ELSE [store |-> ipOut.store,
              sub |-> [base EXCEPT !.pc = "logInitiation",
                         !.email = v.email,
                         !.sanitizedCompanyName = v.sanitizedCompanyName,
                         !.ipRateLimit = ipOut.result,
                         !.emailRateLimit = emOut.result,
                         !.calls = <<Call("checkIpRateLimit", ip, Verdict(ipOut.result)),
                                     Call("checkEmailRateLimit", v.email, Verdict(emOut.result))>>]]

\* A plausible slip: a submission blocked by the identity check gives its
\* unit of origin quota back.
HandleRequestRefundingOrigin(st, req, e, t) ==
    LET ip == ClientIP(req)
        v == validateAndSanitize(req.body)
        ipOut == checkIpRateLimit(st, ip, e.RATE_LIMIT,
                                  e.RATE_LIMIT_WINDOW_SEC, t)
        emOut == checkEmailRateLimit(ipOut.store, v.email, e.RATE_LIMIT,
                                     e.RATE_LIMIT_WINDOW_SEC, t)
        base == [IdleSub EXCEPT !.req = req, !.clientIP = ip]
    IN  IF ~req.body.json
        THEN [store |-> st,
              sub |-> [base EXCEPT !.pc = "done", !.status = 400,
                                   !.code = "INVALID_JSON",
                                   !.message = "Invalid JSON in request body"]]
        ELSE IF ~v.ok
        THEN [store |-> st,
              sub |-> [base EXCEPT !.pc = "done", !.status = 422,
                                   !.code = "VALIDATION_ERROR",
                                   !.message = "Validation failed",
                                   !.errors = v.errors]]
        ELSE IF ~ipOut.result.allowed
        THEN [store |-> ipOut.store,
              sub |-> [base EXCEPT !.pc = "done", !.status = 429,
                         !.code = "rate_limit",
                         !.message = "Rate limit exceeded", !.rlType = "ip",
                         !.rlRemaining = ipOut.result.remaining,
                         !.email = v.email,
                         !.sanitizedCompanyName = v.sanitizedCompanyName,
                         !.ipRateLimit = ipOut.result,
                         !.calls = <<Call("checkIpRateLimit", ip, Verdict(ipOut.result))>>]]
        ELSE IF ~emOut.result.allowed
        THEN [store |-> st,
              sub |-> [base EXCEPT !.pc = "done", !.status = 429,
                         !.code = "rate_limit",
                         !.message = "Rate limit exceeded", !.rlType = "email",
                         !.rlRemaining = emOut.result.remaining,
                         !.email = v.email,
                         !.sanitizedCompanyName = v.sanitizedCompanyName,
                         !.ipRateLimit = ipOut.result,
                         !.emailRateLimit = emOut.result,
                         !.calls = <<Call("checkIpRateLimit", ip, Verdict(ipOut.result)),
                                     Call("checkEmailRateLimit", v.email, Verdict(emOut.result))>>]]
        ELSE [store |-> emOut.store,
              sub |-> [base EXCEPT !.pc = "logInitiation",
                         !.email = v.email,
                         !.sanitizedCompanyName = v.sanitizedCompanyName,
                         !.ipRateLimit = ipOut.result,
                         !.emailRateLimit = emOut.result,
                         !.calls = <<Call("checkIpRateLimit", ip, Verdict(ipOut.result)),
                                     Call("checkEmailRateLimit", v.email, Verdict(emOut.result))>>]]

\* A plausible slip: the origin check is made, and counted, before the
\* body is validated.
HandleRequestCountingInvalid(st, req, e, t) ==
    LET ip == ClientIP(req)
        v == validateAndSanitize(req.body)
        ipOut == checkIpRateLimit(st, ip, e.RATE_LIMIT,
                                  e.RATE_LIMIT_WINDOW_SEC, t)
        emOut == checkEmailRateLimit(ipOut.store, v.email, e.RATE_LIMIT,
                                     e.RATE_LIMIT_WINDOW_SEC, t)
        base == [IdleSub EXCEPT !.req = req, !.clientIP = ip]
    IN  IF ~req.body.json
        THEN [store |-> st,
              sub |-> [base EXCEPT !.pc = "done", !.status = 400,
                                   !.code = "INVALID_JSON",
                                   !.message = "Invalid JSON in request body"]]
        ELSE IF ~v.ok
        THEN [store |-> ipOut.store,
              sub |-> [base EXCEPT !.pc = "done", !.status = 422,
                                   !.code = "VALIDATION_ERROR",
                                   !.message = "Validation failed",
                                   !.errors = v.errors]]
        ELSE IF ~ipOut.result.allowed
        THEN [store |-> ipOut.store,
              sub |-> [base EXCEPT !.pc = "done", !.status = 429,
                         !.code = "rate_limit",
                         !.message = "Rate limit exceeded", !.rlType = "ip",
                         !.rlRemaining = ipOut.result.remaining,
                         !.email = v.email,
                         !.sanitizedCompanyName = v.sanitizedCompanyName,
                         !.ipRateLimit = ipOut.result,
                         !.calls = <<Call("checkIpRateLimit", ip, Verdict(ipOut.result))>>]]
        ELSE IF ~emOut.result.allowed
        THEN [store |-> emOut.store,
              sub |-> [base EXCEPT !.pc = "done", !.status = 429,
                         !.code = "rate_limit",
                         !.message = "Rate limit exceeded", !.rlType = "email",
                         !.rlRemaining = emOut.result.remaining,
                         !.email = v.email,
                         !.sanitizedCompanyName = v.sanitizedCompanyName,
                         !.ipRateLimit = ipOut.result,
                         !.emailRateLimit = emOut.result,
                         !.calls = <<Call("checkIpRateLimit", ip, Verdict(ipOut.result)),
                                     Call("checkEmailRateLimit", v.email, Verdict(emOut.result))>>]]
        ELSE [store |-> emOut.store,
              sub |-> [base EXCEPT !.pc = "logInitiation",
                         !.email = v.email,
                         !.sanitizedCompanyName = v.sanitizedCompanyName,
                         !.ipRateLimit = ipOut.result,
                         !.emailRateLimit = emOut.result,
                         !.calls = <<Call("checkIpRateLimit", ip, Verdict(ipOut.result)),
                                     Call("checkEmailRateLimit", v.email, Verdict(emOut.result))>>]]

\* The handler from the arrival of the request to its first collaborator
\* call: body parsing, validation and the two rate-limit checks run without
\* a suspension that lets another request touch the limiter in between.
\* The limiter store after it, and the handler's locals.
HandleRequest(st, req, e, t) ==
    LET ip == ClientIP(req)
        v == validateAndSanitize(req.body)
        ipOut == checkIpRateLimit(st, ip, e.RATE_LIMIT,
                                  e.RATE_LIMIT_WINDOW_SEC, t)
        emOut == checkEmailRateLimit(ipOut.store, v.email, e.RATE_LIMIT,
                                     e.RATE_LIMIT_WINDOW_SEC, t)
        base == [IdleSub EXCEPT !.req = req, !.clientIP = ip]
    IN  IF ~req.body.json
        THEN [store |-> st,
              sub |-> [base EXCEPT !.pc = "done", !.status = 400,
                                   !.code = "INVALID_JSON",
                                   !.message = "Invalid JSON in request body"]]
        ELSE IF ~v.ok
        THEN [store |-> st,
              sub |-> [base EXCEPT !.pc = "done", !.status = 422,
                                   !.code = "VALIDATION_ERROR",
                                   !.message = "Validation failed",
                                   !.errors = v.errors]]
        ELSE IF ~ipOut.result.allowed
        THEN [store |-> ipOut.store,
              sub |-> [base EXCEPT !.pc = "done", !.status = 429,
                         !.code = "rate_limit",
                         !.message = "Rate limit exceeded", !.rlType = "ip",
                         !.rlRemaining = ipOut.result.remaining,
                         !.email = v.email,
                         !.sanitizedCompanyName = v.sanitizedCompanyName,
                         !.ipRateLimit = ipOut.result,
                         !.calls = <<Call("checkIpRateLimit", ip, Verdict(ipOut.result))>>]]
        ELSE IF ~emOut.result.allowed
        THEN [store |-> emOut.store,
              sub |-> [base EXCEPT !.pc = "done", !.status = 429,
                         !.code = "rate_limit",
                         !.message = "Rate limit exceeded", !.rlType = "email",
                         !.rlRemaining = emOut.result.remaining,
                         !.email = v.email,
                         !.sanitizedCompanyName = v.sanitizedCompanyName,
                         !.ipRateLimit = ipOut.result,
                         !.emailRateLimit = emOut.result,
                         !.calls = <<Call("checkIpRateLimit", ip, Verdict(ipOut.result)),
                                     Call("checkEmailRateLimit", v.email, Verdict(emOut.result))>>]]
        ELSE [store |-> emOut.store,
              sub |-> [base EXCEPT !.pc = "logInitiation",
                         !.email = v.email,
                         !.sanitizedCompanyName = v.sanitizedCompanyName,
                         !.ipRateLimit = ipOut.result,
                         !.emailRateLimit = emOut.result,
                         !.calls = <<Call("checkIpRateLimit", ip, Verdict(ipOut.result)),
                                     Call("checkEmailRateLimit", v.email, Verdict(emOut.result))>>]]

\* The response of POST /api/sanitize-preview.
PreviewResponse(status, code, errors, sanitizedCompanyName) ==
    [status |-> status, code |-> code, errors |-> errors,
     sanitizedCompanyName |-> sanitizedCompanyName]

\* A plausible slip: the preview is admitted by the origin check like a
\* submission.
SanitizePreviewCounting(st, req, e, t) ==
    LET v == validateAndSanitize(req.body)
        ipOut == checkIpRateLimit(st, ClientIP(req), e.RATE_LIMIT,
                                  e.RATE_LIMIT_WINDOW_SEC, t)
    IN  IF ~req.body.json
        THEN [store |-> st,
              response |-> PreviewResponse(400, "INVALID_JSON", <<>>, "")]
        ELSE IF ~v.ok
        THEN [store |-> st,
              response |-> PreviewResponse(422, "VALIDATION_ERROR", v.errors, "")]
        ELSE IF ~ipOut.result.allowed
        THEN [store |-> ipOut.store,
              response |-> PreviewResponse(429, "rate_limit", <<>>, "")]
        ELSE [store |-> ipOut.store,
              response |-> PreviewResponse(200, "ok", <<>>, v.sanitizedCompanyName)]

\* router.post('/api/sanitize-preview'): the limiter's store after the
\* request, which the handler does not touch, and the response. The
\* handler takes neither the environment nor the time.
SanitizePreview(st, req, e, t) ==
    LET v == validateAndSanitize(req.body) IN
    IF ~req.body.json
    THEN [store |-> st,
          response |-> PreviewResponse(400, "INVALID_JSON", <<>>, "")]
    ELSE IF ~v.ok
    THEN [store |-> st,
          response |-> PreviewResponse(422, "VALIDATION_ERROR", v.errors, "")]
    ELSE [store |-> st,
          response |-> PreviewResponse(200, "ok", <<>>, v.sanitizedCompanyName)]

\* SlackResult of inviteGroup, inviteGuest and logToChannel, and the
\* EmailResult of sendWelcomeEmail, as far as the handler looks at them.
StepResults == {[ok |-> TRUE], [ok |-> FALSE]}

\* A plausible slip: a failed guest invite is left out of the list.
PartialFailuresDroppingGuest(groupInviteError, guestInviteError, emailSent) ==
    (IF groupInviteError THEN <<"group invite">> ELSE <<>>)
    \o (IF ~emailSent THEN <<"email">> ELSE <<>>)

\* `partialFailures` of the handler's step 8
PartialFailures(groupInviteError, guestInviteError, emailSent) ==
    (IF groupInviteError THEN <<"group invite">> ELSE <<>>)
    \o (IF guestInviteError THEN <<"guest invite">> ELSE <<>>)
    \o (IF ~emailSent THEN <<"email">> ELSE <<>>)

\* A plausible slip: the final log is always informational.
SummaryLevelAlwaysInfo(partialFailures) == "info"

\* The severity of the final log: partialFailures.length > 0 ? 'warn' : 'info'
SummaryLevel(partialFailures) ==
    IF Len(partialFailures) > 0 THEN "warn" ELSE "info"

\* Array.prototype.join(sep) on a list of strings
RECURSIVE JoinWith(_, _)
JoinWith(list, sep) ==
    IF list = <<>> THEN ""
    ELSE IF Len(list) = 1 THEN list[1]
    ELSE list[1] \o sep \o JoinWith(Tail(list), sep)

\* The text of the handler's first log.
InitiationText(companyName, email, sanitizedCompanyName) ==
    "Channel creation initiated for " \o companyName \o " - user: "
      \o email \o " - sanitized: " \o sanitizedCompanyName

\* A plausible slip: the error log leaves out what Slack answered.
ChannelErrorTextWithoutDetails(sanitizedCompanyName, channelResult) ==
    "Channel creation failed for " \o sanitizedCompanyName

\* The text of the log after a failed createChannel.
ChannelErrorText(sanitizedCompanyName, channelResult) ==
    "Channel creation failed for " \o sanitizedCompanyName \o ": "
      \o channelResult.error \o " - " \o channelResult.details

\* The texts of the three warnings, each up to the error code and details
\* of the failed result (the email warning with the EmailResult's error).
GroupWarnText(channelName, channelId) ==
    "Group invite failed for channel " \o channelName
      \o " (" \o channelId \o ")"
GuestWarnText(email, channelName, channelId) ==
    "Guest invite failed for " \o email \o " to channel " \o channelName
      \o " (" \o channelId \o ")"
EmailWarnText(email, emailResult) ==
    "Email sending failed for " \o email \o ": " \o emailResult.error

\* `logMessage` of the handler's step 8
SummaryText(partialFailures, email, companyName, sanitizedCompanyName, channelName, channelId) ==
    LET about == " processed for " \o email \o " (company: " \o companyName
                   \o " -> " \o sanitizedCompanyName \o "), channel: "
                   \o channelName \o " (" \o channelId \o ")"
    IN  IF Len(partialFailures) > 0
        THEN "Submission" \o about \o ". Partial failures: "
               \o JoinWith(partialFailures, ", ")
        ELSE "Submission successfully" \o about

\* One logToChannel call of a submission: its level, its text and how it
\* ended.
Log(level, text, r) ==
    [op |-> "logToChannel", arg |-> level, res |-> OkOrError(r),
     text |-> text]

\* `await slackClient.logToChannel(text, level)` inside the handler's try
\* block: the SlackResult is discarded and the handler goes on to `next`;
\* an exception would be caught at the end of the handler, which answers
\* 500 INTERNAL_ERROR.
AfterLog(sb, level, text, r, next) ==
    IF r.throws
    THEN [sb EXCEPT !.pc = "done", !.status = 500,
                    !.code = "INTERNAL_ERROR",
                    !.message = "Internal server error",
                    !.calls = Append(@, Log(level, text, r))]
    ELSE [sb EXCEPT !.pc = next,
                    !.calls = Append(@, Log(level, text, r))]

\* The handler returns a response.
Respond(sb, response) ==
    [sb EXCEPT !.pc = "done", !.status = response.status,
               !.code = response.code, !.message = response.message]

\* A plausible slip: the 502 response passes on what Slack answered.
ChannelErrorResponseLeaking(channelResult) ==
    [status |-> 502, code |-> channelResult.error,
     message |-> channelResult.details]

\* errorResponse('SLACK_ERROR', 'Failed to create Slack channel', 502)
ChannelErrorResponse(channelResult) ==
    [status |-> 502, code |-> "SLACK_ERROR",
     message |-> "Failed to create Slack channel"]

\* jsonResponse(response, 200, ...)
SuccessResponse == [status |-> 200, code |-> "ok", message |-> ""]

\* A plausible slip: the email is sent before the guest is invited.
ContinueEmailFirst(step) ==
    CASE step = "inviteGroup" -> "sendWelcomeEmail"
      [] step = "sendWelcomeEmail" -> "inviteGuest"
      [] step = "inviteGuest" -> "logSummary"

\* The step the handler goes on to after a non-fatal step, failed or not.
Continue(step) ==
    CASE step = "inviteGroup" -> "inviteGuest"
      [] step = "inviteGuest" -> "sendWelcomeEmail"
      [] step = "sendWelcomeEmail" -> "logSummary"

\* The warning the handler logs when a non-fatal step failed.
WarnOf(step) ==
    CASE step = "inviteGroup" -> "logGroupWarn"
      [] step = "inviteGuest" -> "logGuestWarn"
      [] step = "sendWelcomeEmail" -> "logEmailWarn"

\* A plausible slip: a failed step is not logged.
AfterStepSilent(ok, step) == Continue(step)

\* A plausible slip: a failed step is tried again.
AfterStepRetrying(ok, step) == IF ok THEN Continue(step) ELSE step

\* `if (!result.ok) { flag; await slackClient.logToChannel(..., 'warn') }`
AfterStep(ok, step) == IF ok THEN Continue(step) ELSE WarnOf(step)

\* The request sendWelcomeEmail makes and what came back.
PostmarkUrl == "https://api.postmarkapp.com/email"
PostmarkAnswer(resp) ==
    IF resp.kind = "throw" THEN "throw"
    ELSE IF resp.MessageID = "" THEN ToString(resp.status) \o " without MessageID"
    ELSE ToString(resp.status) \o " " \o resp.MessageID

\* ------------------------------------------------- SpecLimiter: the API
EmptyStore == [k \in {} |-> Entry(0, 0)]

\* Raw key values (an IP address, an email address) given to the wrappers.
Raw == {"x"}
LimiterKeys == {IpKey(r) : r \in Raw} \cup {EmailKey(r) : r \in Raw}
\* limit arguments: a negative one, zero and small positive ones
Limits == {-1, 0, 1, 2}
WindowSecs == {1, 2}
TickSteps == {1, MsPerSec - 1, MsPerSec}

NoCall ==
    [op |-> "none", fn |-> "", raw |-> "", key |-> "", limit |-> 0,
     windowSec |-> 0, at |-> 0, pre |-> EmptyStore,
     result |-> Result(FALSE, 0, 0)]

NoEnv == [RATE_LIMIT |-> 0, RATE_LIMIT_WINDOW_SEC |-> 0]

\* No /api/sanitize-preview request was made.
NoPreviews ==
    [n |-> 0, req |-> Request("", "", BadJson),
     response |-> PreviewResponse(0, "", <<>>, "")]

\* No chat.postMessage or Postmark request is made.
NoUpstream == [log |-> {}, mail |-> {}]

InitLimiter ==
    /\ now = 0
    /\ ticks = 0
    /\ store = EmptyStore
    /\ last = NoCall
    /\ ncalls = 0
    /\ env = NoEnv
    /\ channels = {}
    /\ faults = {}
    /\ sub = <<>>
    /\ hist = <<>>
    /\ upstream = NoUpstream
    /\ sanitized = <<>>
    /\ previews = NoPreviews

\* Time passes between two calls.
Tick ==
    /\ ticks < MaxTicks
    /\ \E d \in TickSteps : now' = now + d
    /\ ticks' = ticks + 1
    /\ UNCHANGED <<store, last, ncalls, env, channels, faults, sub, hist, upstream, sanitized, previews>>

\* checkIpRateLimit(raw, limit, windowSec)
CallCheckIp ==
    /\ ncalls < MaxCalls
    /\ \E r \in Raw, limit \in Limits, w \in WindowSecs :
         LET out == checkIpRateLimit(store, r, limit, w, now) IN
         /\ store' = out.store
         /\ last' = [op |-> "check", fn |-> "checkIpRateLimit", raw |-> r,
                     key |-> IpKey(r), limit |-> limit,
                     windowSec |-> w, at |-> now, pre |-> store,
                     result |-> out.result]
    /\ ncalls' = ncalls + 1
    /\ UNCHANGED <<now, ticks, env, channels, faults, sub, hist, upstream, sanitized, previews>>

\* checkEmailRateLimit(raw, limit, windowSec)
CallCheckEmail ==
    /\ ncalls < MaxCalls
    /\ \E r \in Raw, limit \in Limits, w \in WindowSecs :
         LET out == checkEmailRateLimit(store, r, limit, w, now) IN
         /\ store' = out.store
         /\ last' = [op |-> "check", fn |-> "checkEmailRateLimit", raw |-> r,
                     key |-> EmailKey(r), limit |-> limit,
                     windowSec |-> w, at |-> now, pre |-> store,
                     result |-> out.result]
    /\ ncalls' = ncalls + 1
    /\ UNCHANGED <<now, ticks, env, channels, faults, sub, hist, upstream, sanitized, previews>>

\* getRateLimiter().getStatus(key, limit)
CallGetStatus ==
    /\ ncalls < MaxCalls
    /\ \E k \in LimiterKeys, limit \in Limits :
         LET out == getStatusStep(store, k, limit, now) IN
         /\ store' = out.store
         /\ last' = [op |-> "status", fn |-> "getStatus", raw |-> "",
                     key |-> k, limit |-> limit,
                     windowSec |-> 0, at |-> now, pre |-> store,
                     result |-> out.result]
    /\ ncalls' = ncalls + 1
    /\ UNCHANGED <<now, ticks, env, channels, faults, sub, hist, upstream, sanitized, previews>>

\* getRateLimiter().cleanup(); the result is the number of entries removed
CallCleanup ==
    /\ ncalls < MaxCalls
    /\ store' = cleanup(store, now)
    /\ last' = [op |-> "cleanup", fn |-> "cleanup", raw |-> "",
                key |-> "", limit |-> 0, windowSec |-> 0,
                at |-> now, pre |-> store,
                result |-> Cardinality(DOMAIN store)
                           - Cardinality(DOMAIN cleanup(store, now))]
    /\ ncalls' = ncalls + 1
    /\ UNCHANGED <<now, ticks, env, channels, faults, sub, hist, upstream, sanitized, previews>>

\* getRateLimiter().clear()
CallClear ==
    /\ ncalls < MaxCalls
    /\ store' = EmptyStore
    /\ last' = [op |-> "clear", fn |-> "clear", raw |-> "",
                key |-> "", limit |-> 0, windowSec |-> 0,
                at |-> now, pre |-> store, result |-> 0]
    /\ ncalls' = ncalls + 1
    /\ UNCHANGED <<now, ticks, env, channels, faults, sub, hist, upstream, sanitized, previews>>

NextLimiter ==
    \/ Tick
    \/ CallCheckIp
    \/ CallCheckEmail
    \/ CallGetStatus
    \/ CallCleanup
    \/ CallClear

SpecLimiter == InitLimiter /\ [][NextLimiter]_vars

\* ------------------------------------------ Spec: interleaved submissions
Subs == {"s1", "s2"}

NameA == <<"A", "b">>
NameB == <<"a", "b", "-", "2">>
NameBlank == <<" ", "!">>

Requests ==
    {Request("1.1.1.1", "", JsonBody(NameA, "u@x.io")),
     Request("1.1.1.1", "", JsonBody(NameB, "v@x.io")),
     Request("2.2.2.2", "", JsonBody(NameA, "u@x.io")),
     Request("1.1.1.1", "", BadJson),
     Request("1.1.1.1", "", JsonBody(NameBlank, "u@x.io")),
     Request("", "", JsonBody(NameA, "nope"))}

\* The first k names createChannel tries for a sanitized name.
Chain(sanitizedName, k) == {RequestedName(sanitizedName, i) : i \in 0..(k - 1)}

\* parseInt(env.RATE_LIMIT, 10): with two requests every limit above 2
\* behaves as 2 does.
SubmitLimits == {0, 1, 2}

\* How many of the names for "ab" exist in the workspace at the start.
InitTaken == {0, 2}

Init ==
    /\ now = 0
    /\ ticks = 0
    /\ store = EmptyStore
    /\ last = NoCall
    /\ ncalls = 0
    /\ env \in {[RATE_LIMIT |-> l, RATE_LIMIT_WINDOW_SEC |-> 1,
                  POSTMARK_API_KEY |-> "pm-key"] : l \in SubmitLimits}
    /\ channels \in {Chain("ab", k) : k \in InitTaken}
    /\ faults = {HttpResponse(429, 120)}
    /\ sub = [s \in Subs |-> IdleSub]
    /\ hist = <<>>
    /\ upstream = [log |-> {}, mail |-> {PostmarkResponse(422, "")}]
    /\ sanitized = <<>>
    /\ previews = NoPreviews

\* A whole rate-limit window passes.
Elapse ==
    /\ ticks < MaxWindows
    /\ now' = now + env.RATE_LIMIT_WINDOW_SEC * MsPerSec
    /\ ticks' = ticks + 1
    /\ UNCHANGED <<store, last, ncalls, env, channels, faults, sub, hist, upstream, sanitized, previews>>

\* A request arrives and runs up to its response or its first awaited call.
Receive(s) ==
    /\ sub[s].pc = "idle"
    /\ \E req \in Requests :
         LET out == HandleRequest(store, req, env, now) IN
         /\ store' = out.store
         /\ sub' = [sub EXCEPT ![s] = out.sub]
    /\ UNCHANGED <<now, ticks, last, ncalls, env, channels, faults, hist, upstream, sanitized, previews>>

\* await slackClient.logToChannel('Channel creation initiated ...', 'info')
LogInitiation(s) ==
    /\ sub[s].pc = "logInitiation"
    /\ \E resp \in LogResponses(upstream.log) :
         sub' = [sub EXCEPT ![s] =
                   [AfterLog(sub[s], "info",
                             InitiationText(Join(sub[s].req.body.companyName),
                                            sub[s].email,
                                            sub[s].sanitizedCompanyName),
                             logToChannel(resp), "createChannel")
                      EXCEPT !.attemptCount = 0]]
    /\ UNCHANGED <<now, ticks, store, last, ncalls, env, channels, faults, hist,
                   upstream, sanitized, previews>>

\* One conversations.create request of createChannel and what follows it up
\* to the next awaited call.
CreateChannelRequest(s) ==
    /\ sub[s].pc = "createChannel"
    /\ LET name == RequestedName(sub[s].sanitizedCompanyName, sub[s].attemptCount) IN
       \E resp \in CreateResponses(name, channels, faults) :
         LET result == slackRequest(resp)
             step == createChannelStep(name, sub[s].attemptCount, result)
             called == Append(sub[s].calls,
                              Call("conversations.create", name,
                                   IF ~result.ok THEN result.error
                                   ELSE IF result.channel = "" THEN "no_channel"
                                   ELSE "ok"))
         IN
         /\ channels' = IF resp.ok /\ resp.channel # ""
                        THEN channels \cup {resp.channel} ELSE channels
         /\ sub' = [sub EXCEPT ![s] =
              IF ~step.returns
              THEN [@ EXCEPT !.attemptCount = step.attemptCount,
                             !.calls = called]
              ELSE [@ EXCEPT !.attemptCount = step.attemptCount,
                             !.channelResult = step.result,
                             !.channelName = step.result.channel,
                             !.channelId = IF step.result.ok
                                           THEN "C:" \o step.result.channel
                                           ELSE "",
                             !.pc = AfterCreateChannel(step.result),
                             !.calls = called]]
    /\ UNCHANGED <<now, ticks, store, last, ncalls, env, faults, hist, upstream, sanitized, previews>>

\* await slackClient.logToChannel('Channel creation failed ...', 'error');
\* return errorResponse('SLACK_ERROR', ..., 502)
LogChannelError(s) ==
    /\ sub[s].pc = "logChannelError"
    /\ \E resp \in LogResponses(upstream.log) :
         LET logged == AfterLog(sub[s], "error",
                                ChannelErrorText(sub[s].sanitizedCompanyName,
                                                 sub[s].channelResult),
                                logToChannel(resp), "return")
         IN sub' = [sub EXCEPT ![s] =
                      IF logged.pc = "return"
                      THEN Respond(logged,
                                   ChannelErrorResponse(sub[s].channelResult))
                      ELSE logged]
    /\ UNCHANGED <<now, ticks, store, last, ncalls, env, channels, faults, hist,
                   upstream, sanitized, previews>>

\* await slackClient.inviteGroup(channelId): no member list is passed
InviteGroup(s) ==
    /\ sub[s].pc = "inviteGroup"
    /\ \E r \in StepResults :
         sub' = [sub EXCEPT ![s].groupInviteError = ~r.ok,
                            ![s].failed = IF r.ok THEN @ ELSE @ \cup {"inviteGroup"},
                            ![s].pc = AfterStep(r.ok, "inviteGroup"),
                            ![s].calls =
                                Append(@, Call("inviteGroup", NoUsers, OkOrError(r)))]
    /\ UNCHANGED <<now, ticks, store, last, ncalls, env, channels, faults, hist,
                   upstream, sanitized, previews>>

\* await slackClient.logToChannel('Group invite failed ...', 'warn')
LogGroupWarn(s) ==
    /\ sub[s].pc = "logGroupWarn"
    /\ \E resp \in LogResponses(upstream.log) :
         sub' = [sub EXCEPT ![s] =
                   AfterLog(sub[s], "warn",
                            GroupWarnText(sub[s].channelName, sub[s].channelId),
                            logToChannel(resp), Continue("inviteGroup"))]
    /\ UNCHANGED <<now, ticks, store, last, ncalls, env, channels, faults, hist,
                   upstream, sanitized, previews>>

\* await slackClient.inviteGuest(email, channelId)
InviteGuest(s) ==
    /\ sub[s].pc = "inviteGuest"
    /\ \E r \in StepResults :
         sub' = [sub EXCEPT ![s].guestInviteError = ~r.ok,
                            ![s].failed = IF r.ok THEN @ ELSE @ \cup {"inviteGuest"},
                            ![s].pc = AfterStep(r.ok, "inviteGuest"),
                            ![s].calls = Append(@, Call("inviteGuest", sub[s].email, OkOrError(r)))]
    /\ UNCHANGED <<now, ticks, store, last, ncalls, env, channels, faults, hist,
                   upstream, sanitized, previews>>

\* await slackClient.logToChannel('Guest invite failed ...', 'warn')
LogGuestWarn(s) ==
    /\ sub[s].pc = "logGuestWarn"
    /\ \E resp \in LogResponses(upstream.log) :
         sub' = [sub EXCEPT ![s] =
                   AfterLog(sub[s], "warn",
                            GuestWarnText(sub[s].email, sub[s].channelName,
                                          sub[s].channelId),
                            logToChannel(resp), Continue("inviteGuest"))]
    /\ UNCHANGED <<now, ticks, store, last, ncalls, env, channels, faults, hist,
                   upstream, sanitized, previews>>

\* await sendWelcomeEmail({companyName, email, channelName, channelUrl},
\*                        env.POSTMARK_API_KEY)
SendWelcomeEmail(s) ==
    /\ sub[s].pc = "sendWelcomeEmail"
    /\ \E resp \in PostmarkResponses(upstream.mail) :
         LET out == sendWelcomeEmail(env.POSTMARK_API_KEY, resp)
             r == out.result
             requests == IF out.requested
                         THEN <<Call("fetch", PostmarkUrl, PostmarkAnswer(resp))>>
                         ELSE <<>>
         IN
         sub' = [sub EXCEPT ![s].emailSent = r.ok,
                            ![s].emailResult = r,
                            ![s].failed = IF r.ok THEN @ ELSE @ \cup {"sendWelcomeEmail"},
                            ![s].pc = AfterStep(r.ok, "sendWelcomeEmail"),
                            ![s].calls = Append(@ \o requests,
                                                Call("sendWelcomeEmail", sub[s].email, OkOrError(r)))]
    /\ UNCHANGED <<now, ticks, store, last, ncalls, env, channels, faults, hist,
                   upstream, sanitized, previews>>

\* await slackClient.logToChannel('Email sending failed ...', 'warn')
LogEmailWarn(s) ==
    /\ sub[s].pc = "logEmailWarn"
    /\ \E resp \in LogResponses(upstream.log) :
         sub' = [sub EXCEPT ![s] =
                   AfterLog(sub[s], "warn",
                            EmailWarnText(sub[s].email, sub[s].emailResult),
                            logToChannel(resp), Continue("sendWelcomeEmail"))]
    /\ UNCHANGED <<now, ticks, store, last, ncalls, env, channels, faults, hist,
                   upstream, sanitized, previews>>

\* Steps 8 and 9: the final log, then the 200 response.
LogSummary(s) ==
    /\ sub[s].pc = "logSummary"
    /\ \E resp \in LogResponses(upstream.log) :
         LET pf == PartialFailures(sub[s].groupInviteError,
                                   sub[s].guestInviteError, sub[s].emailSent)
             logged == AfterLog([sub[s] EXCEPT !.partialFailures = pf],
                                SummaryLevel(pf),
                                SummaryText(pf, sub[s].email,
                                            Join(sub[s].req.body.companyName),
                                            sub[s].sanitizedCompanyName,
                                            sub[s].channelName, sub[s].channelId),
                                logToChannel(resp), "return")
         IN sub' = [sub EXCEPT ![s] =
                      IF logged.pc = "return"
                      THEN Respond(logged, SuccessResponse)
                      ELSE logged]
    /\ UNCHANGED <<now, ticks, store, last, ncalls, env, channels, faults, hist,
                   upstream, sanitized, previews>>

Next ==
    \/ Elapse
    \/ \E s \in Subs : Receive(s)
    \/ \E s \in Subs : LogInitiation(s)
    \/ \E s \in Subs : CreateChannelRequest(s)
    \/ \E s \in Subs : LogChannelError(s)
    \/ \E s \in Subs : InviteGroup(s)
    \/ \E s \in Subs : LogGroupWarn(s)
    \/ \E s \in Subs : InviteGuest(s)
    \/ \E s \in Subs : LogGuestWarn(s)
    \/ \E s \in Subs : SendWelcomeEmail(s)
    \/ \E s \in Subs : LogEmailWarn(s)
    \/ \E s \in Subs : LogSummary(s)

Spec == Init /\ [][Next]_vars

\* ------------------------ SpecSolo: one submission, every kind of failure
InitSolo ==
    /\ now = 0
    /\ ticks = 0
    /\ store = EmptyStore
    /\ last = NoCall
    /\ ncalls = 0
    /\ env \in {[RATE_LIMIT |-> 1, RATE_LIMIT_WINDOW_SEC |-> 1,
                  POSTMARK_API_KEY |-> k] : k \in {"pm-key", ""}}
    /\ channels \in {Chain("ab", k) : k \in 0..maxAttempts}
    /\ faults = AllFailures
    /\ sub = [s \in Subs |-> IdleSub]
    /\ hist = <<>>
    /\ upstream = [log |-> LogFailures, mail |-> PostmarkFailures]
    /\ sanitized = <<>>
    /\ previews = NoPreviews

NextSolo ==
    \/ Receive("s1")
    \/ LogInitiation("s1")
    \/ CreateChannelRequest("s1")
    \/ LogChannelError("s1")
    \/ InviteGroup("s1")
    \/ LogGroupWarn("s1")
    \/ InviteGuest("s1")
    \/ LogGuestWarn("s1")
    \/ SendWelcomeEmail("s1")
    \/ LogEmailWarn("s1")
    \/ LogSummary("s1")

SpecSolo == InitSolo /\ [][NextSolo]_vars

\* Every awaited call resolves and the handler goes on.
SpecSoloFair == SpecSolo /\ WF_vars(NextSolo)

\* --------------------------- SpecWindow: a burst of checks on one key
InitWindow ==
    /\ now = 0
    /\ ticks = 0
    /\ store = EmptyStore
    /\ last = NoCall
    /\ ncalls = 0
    /\ env \in {[RATE_LIMIT |-> l, RATE_LIMIT_WINDOW_SEC |-> 1] : l \in 1..MaxLimit}
    /\ channels = {}
    /\ faults = {}
    /\ sub = <<>>
    /\ hist = <<>>
    /\ upstream = NoUpstream
    /\ sanitized = <<>>
    /\ previews = NoPreviews

\* checkIpRateLimit("x", RATE_LIMIT, RATE_LIMIT_WINDOW_SEC), its time and
\* result appended to the history of the burst.
BurstCheck ==
    /\ ncalls < MaxBurst
    /\ LET out == checkIpRateLimit(store, "x", env.RATE_LIMIT,
                                   env.RATE_LIMIT_WINDOW_SEC, now)
       IN
       /\ store' = out.store
       /\ last' = [op |-> "check", fn |-> "checkIpRateLimit", raw |-> "x",
                   key |-> IpKey("x"), limit |-> env.RATE_LIMIT,
                   windowSec |-> env.RATE_LIMIT_WINDOW_SEC, at |-> now,
                   pre |-> store, result |-> out.result]
       /\ hist' = Append(hist, [at |-> now, result |-> out.result])
    /\ ncalls' = ncalls + 1
    /\ UNCHANGED <<now, ticks, env, channels, faults, sub, upstream, sanitized, previews>>

NextWindow ==
    \/ Tick
    \/ BurstCheck

SpecWindow == InitWindow /\ [][NextWindow]_vars

\* ------------- SpecSanitize: sanitizeCompanyName applied again and again
\* The texts: a run of the letter a, up to MaxTail characters that
\* sanitizeCompanyName treats in different ways, and then the letter b or
\* nothing. The runs put the end of the text before, at and after the cut.
Texts ==
    LET Repeat(c, n) == [i \in 1..n |-> c]
        RunLengths == {0, SliceLen - 2, SliceLen - 1}
        TailChars == {"b", "-", " ", "!", "E-ACUTE"}
        Tails == UNION {[1..n -> TailChars] : n \in 0..MaxTail}
    IN  {Repeat("a", k) \o tail \o end :
           k \in RunLengths, tail \in Tails, end \in {<<>>, <<"b">>}}

InitSanitize ==
    /\ now = 0
    /\ ticks = 0
    /\ store = EmptyStore
    /\ last = NoCall
    /\ ncalls = 0
    /\ env = NoEnv
    /\ channels = {}
    /\ faults = {}
    /\ sub = <<>>
    /\ hist = <<>>
    /\ upstream = NoUpstream
    /\ previews = NoPreviews
    /\ sanitized \in {<<t>> : t \in Texts}

\* sanitizeCompanyName applied to the latest result.
Sanitize ==
    /\ Len(sanitized) <= MaxPasses
    /\ sanitized' = Append(sanitized,
                           sanitizeCompanyName(sanitized[Len(sanitized)]))
    /\ UNCHANGED <<now, ticks, store, last, ncalls, env, channels, faults, sub,
                   hist, upstream, previews>>

NextSanitize == Sanitize

SpecSanitize == InitSanitize /\ [][NextSanitize]_vars

\* ------------------------ SpecTurns: submissions one after another
\* The submissions in the order they arrive.
Turns == <<"s1", "s2", "s3">>

\* Requests with one, both or none of the origin headers, two identities,
\* an unparseable body and a name that sanitizes to nothing.
TurnRequests ==
    {Request("", "2.2.2.2", JsonBody(NameA, "u@x.io")),
     Request("1.1.1.1", "2.2.2.2", JsonBody(NameA, "u@x.io")),
     Request("1.1.1.1", "", JsonBody(NameB, "v@x.io")),
     Request("", "", JsonBody(NameA, "u@x.io")),
     Request("", "", JsonBody(NameB, "v@x.io")),
     Request("1.1.1.1", "", BadJson),
     Request("1.1.1.1", "", JsonBody(NameBlank, "v@x.io"))}

\* What the client's sanitizePreview(companyName) sends, {companyName};
\* bodies with an email whose name is usable, empty, absent or made of
\* whitespace, punctuation or emoji only; a malformed email; and an
\* unparseable body.
PreviewRequests ==
    {Request("1.1.1.1", "", body) :
       body \in {JsonBodyWithoutEmail(NameA),
                 JsonBodyWithoutEmail(NameBlank),
                 JsonBody(NameA, "u@x.io"),
                 JsonBody(NameBlank, "u@x.io"),
                 JsonBody(<<"EMOJI", "EMOJI">>, "u@x.io"),
                 JsonBody(<<>>, "u@x.io"),
                 [JsonBody(<<>>, "u@x.io") EXCEPT !.hasCompanyName = FALSE],
                 JsonBody(NameA, "nope"),
                 BadJson}}

InitTurns ==
    /\ now = 0
    /\ ticks = 0
    /\ store = EmptyStore
    /\ last = NoCall
    /\ ncalls = 0
    /\ env \in {[RATE_LIMIT |-> l, RATE_LIMIT_WINDOW_SEC |-> 1,
                  POSTMARK_API_KEY |-> "pm-key"] : l \in {1, 2}}
    /\ channels = {}
    /\ faults = {HttpResponse(429, 120)}
    /\ sub = [s \in Range(Turns) |-> IdleSub]
    /\ hist = <<>>
    /\ upstream = [log |-> {}, mail |-> {PostmarkResponse(422, "")}]
    /\ sanitized = <<>>
    /\ previews = NoPreviews

\* The i-th request arrives once the ones before it have been answered.
ReceiveInTurn(i) ==
    /\ sub[Turns[i]].pc = "idle"
    /\ \A j \in 1..(i - 1) : sub[Turns[j]].pc = "done"
    /\ \E req \in TurnRequests :
         LET out == HandleRequest(store, req, env, now) IN
         /\ store' = out.store
         /\ sub' = [sub EXCEPT ![Turns[i]] = out.sub]
    /\ UNCHANGED <<now, ticks, last, ncalls, env, channels, faults, hist,
                   upstream, sanitized, previews>>

\* A POST /api/sanitize-preview request arrives and is answered.
Preview ==
    /\ previews.n < MaxPreviews
    /\ \E req \in PreviewRequests :
         LET out == SanitizePreview(store, req, env, now) IN
         /\ store' = out.store
         /\ previews' = [n |-> previews.n + 1, req |-> req,
                         response |-> out.response]
    /\ UNCHANGED <<now, ticks, last, ncalls, env, channels, faults, sub, hist,
                   upstream, sanitized>>

NextTurns ==
    \/ \E i \in 1..Len(Turns) : ReceiveInTurn(i)
    \/ \E s \in Range(Turns) : LogInitiation(s)
    \/ \E s \in Range(Turns) : CreateChannelRequest(s)
    \/ \E s \in Range(Turns) : LogChannelError(s)
    \/ \E s \in Range(Turns) : InviteGroup(s)
    \/ \E s \in Range(Turns) : LogGroupWarn(s)
    \/ \E s \in Range(Turns) : InviteGuest(s)
    \/ \E s \in Range(Turns) : LogGuestWarn(s)
    \/ \E s \in Range(Turns) : SendWelcomeEmail(s)
    \/ \E s \in Range(Turns) : LogEmailWarn(s)
    \/ \E s \in Range(Turns) : LogSummary(s)

SpecTurns == InitTurns /\ [][NextTurns]_vars

\* ------ SpecPreview: two submissions in turn and previews at any moment
InitPreview ==
    /\ now = 0
    /\ ticks = 0
    /\ store = EmptyStore
    /\ last = NoCall
    /\ ncalls = 0
    /\ env = [RATE_LIMIT |-> 1, RATE_LIMIT_WINDOW_SEC |-> 1,
              POSTMARK_API_KEY |-> "pm-key"]
    /\ channels = {}
    /\ faults = {HttpResponse(429, 120)}
    /\ sub = [s \in Subs |-> IdleSub]
    /\ hist = <<>>
    /\ upstream = [log |-> {}, mail |-> {PostmarkResponse(422, "")}]
    /\ sanitized = <<>>
    /\ previews = NoPreviews

NextPreview ==
    \/ Preview
    \/ \E i \in 1..Cardinality(Subs) : ReceiveInTurn(i)
    \/ \E s \in Subs : LogInitiation(s)
    \/ \E s \in Subs : CreateChannelRequest(s)
    \/ \E s \in Subs : LogChannelError(s)
    \/ \E s \in Subs : InviteGroup(s)
    \/ \E s \in Subs : LogGroupWarn(s)
    \/ \E s \in Subs : InviteGuest(s)
    \/ \E s \in Subs : LogGuestWarn(s)
    \/ \E s \in Subs : SendWelcomeEmail(s)
    \/ \E s \in Subs : LogEmailWarn(s)
    \/ \E s \in Subs : LogSummary(s)

SpecPreview == InitPreview /\ [][NextPreview]_vars

\* ----------------------------------------------------------------- claims

\* The calls a submission made to the messaging and email collaborators.
CollaboratorOps ==
    {"logToChannel", "conversations.create", "getGroupUsers", "inviteGroup",
     "inviteGuest", "sendWelcomeEmail"}

\* The conversations.create requests of a submission, in order.
Creates(s) == SelectSeq(sub[s].calls, LAMBDA c : c.op = "conversations.create")

\* The name the claims expect for the k-th creation request.
ExpectedName(sanitizedName, k) ==
    IF k = 1 THEN "ext-theguild-" \o sanitizedName
    ELSE "ext-theguild-" \o sanitizedName \o "-" \o ToString(k)

\* The submissions whose origin (identity) check was allowed in the window
\* of key k that ends at r.
IpGrants(k, r) ==
    {s \in Subs : /\ sub[s].ipRateLimit.allowed
                  /\ IpKey(sub[s].clientIP) = k
                  /\ sub[s].ipRateLimit.resetAt = r}
EmailGrants(k, r) ==
    {s \in Subs : /\ sub[s].emailRateLimit.allowed
                  /\ EmailKey(sub[s].email) = k
                  /\ sub[s].emailRateLimit.resetAt = r}

\* C1: with a limit L >= 1, under every interleaving of the submissions, the
\* allowed checkAndIncrement calls on one key within one window never
\* number more than L, and no stored count exceeds L.
C1_AdmissionsWithinLimit ==
    env.RATE_LIMIT >= 1 =>
      /\ \A k \in DOMAIN store : store[k].count <= env.RATE_LIMIT
      /\ \A s \in Subs :
           /\ sub[s].ipRateLimit.allowed =>
                Cardinality(IpGrants(IpKey(sub[s].clientIP),
                                     sub[s].ipRateLimit.resetAt))
                  <= env.RATE_LIMIT
           /\ sub[s].emailRateLimit.allowed =>
                Cardinality(EmailGrants(EmailKey(sub[s].email),
                                        sub[s].emailRateLimit.resetAt))
                  <= env.RATE_LIMIT

\* C1 witness: while one admitted submission is suspended at a collaborator
\* call, another one from the same origin is blocked in the same window.
C1_Witness ==
    /\ env.RATE_LIMIT = 1
    /\ \E s, t \in Subs :
         /\ s # t
         /\ sub[s].pc \notin {"idle", "done"}
         /\ sub[s].ipRateLimit.allowed
         /\ sub[t].status = 429
         /\ sub[t].rlType = "ip"
         /\ sub[t].clientIP = sub[s].clientIP
         /\ sub[t].ipRateLimit.resetAt = sub[s].ipRateLimit.resetAt

StepName(step) ==
    CASE step = "inviteGroup" -> "group invite"
      [] step = "inviteGuest" -> "guest invite"
      [] step = "sendWelcomeEmail" -> "email"

C4_ChannelFailureShortCircuits ==
    \A s \in Subs :
      (~sub[s].channelResult.ok /\ sub[s].channelResult.error # "") =>
        /\ sub[s].pc \in {"logChannelError", "done"}
        /\ sub[s].pc = "done" => sub[s].status = 502
        /\ \A i \in 1..Len(sub[s].calls) :
             sub[s].calls[i].op
               \notin {"inviteGroup", "inviteGuest", "sendWelcomeEmail"}

\* C4 witness: a submission ended 502 after the collision retries ran out.
C4_Witness ==
    \E s \in Subs :
      /\ sub[s].pc = "done"
      /\ sub[s].status = 502
      /\ sub[s].channelResult.error = "max_attempts_exceeded"

\* C5: every inviteGroup call comes after a successful fetch of the group
\* members and is given the fetched member list.
C5_MembersFetchedBeforeInvite ==
    \A s \in Subs :
      \A i \in 1..Len(sub[s].calls) :
        sub[s].calls[i].op = "inviteGroup" =>
          /\ \E j \in 1..(i - 1) :
               /\ sub[s].calls[j].op = "getGroupUsers"
               /\ sub[s].calls[j].res = "ok"
          /\ sub[s].calls[i].arg # NoUsers

\* C6: the k-th creation request of a createChannel call asks for the base
\* name when k = 1 and for the base name suffixed -k otherwise, each request
\* but the first follows a name_taken answer, the names asked for are
\* pairwise distinct, and a channel created at attempt k carries that name.
C6_CollisionSuffixes ==
    \A s \in Subs :
      LET cr == Creates(s) IN
      /\ \A k \in 1..Len(cr) :
           cr[k].arg = ExpectedName(sub[s].sanitizedCompanyName, k)
      /\ \A k \in 1..(Len(cr) - 1) : cr[k].res = "name_taken"
      /\ \A i, j \in 1..Len(cr) : i # j => cr[i].arg # cr[j].arg
      /\ sub[s].channelResult.ok =>
           /\ Len(cr) <= 10
           /\ sub[s].channelName
                = ExpectedName(sub[s].sanitizedCompanyName, Len(cr))

\* C6 witness: three collisions, then the channel is created with suffix -4.
C6_Witness ==
    \E s \in Subs :
      /\ Len(Creates(s)) = 4
      /\ sub[s].channelResult.ok
      /\ sub[s].channelName = "ext-theguild-ab-4"

\* C7: createChannel makes at most 10 creation requests; when all 10 are
\* answered name_taken it returns max_attempts_exceeded, which ends the
\* submission with 502, and it returns that error in no other case.
C7_AtMostTenAttempts ==
    \A s \in Subs :
      LET cr == Creates(s)
          allTaken == \A k \in 1..Len(cr) : cr[k].res = "name_taken"
      IN
      /\ Len(cr) <= 10
      /\ sub[s].pc = "createChannel" => Len(cr) < 10
      /\ (Len(cr) = 10 /\ allTaken) =>
           /\ sub[s].channelResult = SlackError("max_attempts_exceeded", -1)
           /\ sub[s].pc \in {"logChannelError", "done"}
           /\ sub[s].pc = "done" => sub[s].status = 502
      /\ sub[s].channelResult.error = "max_attempts_exceeded" =>
           (Len(cr) = 10 /\ allTaken)

\* C7 witness: ten requests, all answered name_taken, and the 502 response.
C7_Witness ==
    \E s \in Subs :
      /\ Len(Creates(s)) = 10
      /\ \A k \in 1..10 : Creates(s)[k].res = "name_taken"
      /\ sub[s].pc = "done"
      /\ sub[s].status = 502

\* The error createChannel returns for an answer that is neither a created
\* channel nor name_taken.
ErrorFor(res) == IF res = "no_channel" THEN "invalid_response" ELSE res

\* C8: an answer to a creation request that is neither success nor
\* name_taken is the last request of that createChannel call, at whatever
\* attempt it comes, and createChannel returns that very error (with the
\* retry-after hint when Slack rate-limited the request).
C8_OtherErrorsFatalAtOnce ==
    \A s \in Subs :
      LET cr == Creates(s) IN
      \A i \in 1..Len(cr) :
        cr[i].res \notin {"ok", "name_taken"} =>
          /\ i = Len(cr)
          /\ sub[s].pc \in {"logChannelError", "done"}
          /\ ~sub[s].channelResult.ok
          /\ sub[s].channelResult.error = ErrorFor(cr[i].res)
          /\ cr[i].res = "rate_limited" =>
               sub[s].channelResult.retryAfter \in {60, 120}

\* C8 witness: Slack rate-limits the third request, after two collisions.
C8_Witness ==
    \E s \in Subs :
      /\ Len(Creates(s)) = 3
      /\ Creates(s)[3].res = "rate_limited"
      /\ sub[s].channelResult.retryAfter = 120

\* C9: two submissions whose channel was created - so any two that reach
\* the 200 response - never hold the same channel name.
C9_DistinctChannelNames ==
    \A s, t \in Subs :
      (s # t /\ sub[s].channelResult.ok /\ sub[t].channelResult.ok) =>
        sub[s].channelName # sub[t].channelName

\* C9 witness: two submissions with the same sanitized name both ended 200.
C9_Witness ==
    \E s, t \in Subs :
      /\ s # t
      /\ sub[s].status = 200
      /\ sub[t].status = 200
      /\ sub[s].sanitizedCompanyName = sub[t].sanitizedCompanyName
      /\ sub[s].channelName # sub[t].channelName

\* C10: a checkAndIncrement call with limit >= 1 on a key that has no record
\* or whose windowEnd is at or before now stores count 1 and windowEnd
\* now + windowSec * 1000 and returns allowed, remaining limit - 1, however
\* full the old window was; one millisecond before windowEnd a key at its
\* limit is still blocked.
C10_WindowOpensAtResetTime ==
    (last.op = "check" /\ last.limit >= 1) =>
      LET k == last.key
          end == last.at + last.windowSec * 1000
      IN
      /\ (k \notin DOMAIN last.pre \/ last.at >= last.pre[k].resetTime) =>
           /\ last.result = Result(TRUE, last.limit - 1, end)
           /\ store[k] = Entry(1, end)
      /\ (/\ k \in DOMAIN last.pre
          /\ last.pre[k].count >= last.limit
          /\ last.at = last.pre[k].resetTime - 1) =>
           /\ ~last.result.allowed
           /\ store = last.pre

\* C10 witness: a call exactly at windowEnd of an exhausted key is allowed.
C10_Witness ==
    /\ last.op = "check"
    /\ last.limit >= 1
    /\ last.key \in DOMAIN last.pre
    /\ last.pre[last.key].count >= last.limit
    /\ last.at = last.pre[last.key].resetTime
    /\ last.result.allowed

\* The store restricted to one key.
Only(st, key) == [k \in DOMAIN st \cap {key} |-> st[k]]

\* C11: a checkAndIncrement call on a key whose record is unexpired and has
\* count >= limit returns allowed=false, remaining=0 and the record's
\* resetTime, and it leaves the whole store as it was.
C11_BlockedCallChangesNothing ==
    (/\ last.op = "check"
     /\ last.limit >= 1
     /\ last.key \in DOMAIN last.pre
     /\ last.at < last.pre[last.key].resetTime
     /\ last.pre[last.key].count >= last.limit) =>
      /\ last.result = Result(FALSE, 0, last.pre[last.key].resetTime)
      /\ store = last.pre

\* C11 witness: the third call on a key of limit 1 is blocked like the
\* second, the count still 1.
C11_Witness ==
    /\ last.op = "check"
    /\ ncalls = 3
    /\ last.limit = 1
    /\ ~last.result.allowed
    /\ last.key \in DOMAIN last.pre
    /\ last.pre[last.key].count = 1
    /\ DOMAIN store = {last.key}
    /\ store[last.key].count = 1

\* C13 (as stated): with limit <= 0 the result's resetAt is now + windowSec.
C13_ResetAtIsNowPlusSeconds ==
    (last.op = "check" /\ last.limit <= 0) =>
      last.result.resetAt = last.at + last.windowSec

\* C13 (amended): with limit <= 0 checkAndIncrement returns allowed=false,
\* remaining=0 and resetAt = now + windowSec * 1000 (milliseconds) for every
\* key and store, and it creates or changes no record.
C13_NonPositiveLimitBlocks ==
    (last.op = "check" /\ last.limit <= 0) =>
      /\ last.result = Result(FALSE, 0, last.at + last.windowSec * 1000)
      /\ store = last.pre

\* C13 witness: a negative limit on a key whose window has expired.
C13_Witness ==
    /\ last.op = "check"
    /\ last.limit < 0
    /\ last.key \in DOMAIN last.pre
    /\ last.at >= last.pre[last.key].resetTime
    /\ ~last.result.allowed
    /\ store = last.pre

\* The key a wrapper call is expected to use.
OwnKey ==
    CASE last.fn = "checkIpRateLimit" -> "ip:" \o last.raw
      [] last.fn = "checkEmailRateLimit" -> "email:" \o last.raw
      [] OTHER -> last.key

\* C14: a checkAndIncrement or getStatus call leaves the record of every
\* other key as it was and returns what it would return if no other key
\* were stored; checkIpRateLimit(x) and checkEmailRateLimit(x) use the
\* separate records ip:x and email:x.
C14_KeysIndependent ==
    last.op \in {"check", "status"} =>
      /\ \A k \in (DOMAIN last.pre \cup DOMAIN store) \ {OwnKey} :
           /\ k \in DOMAIN last.pre
           /\ k \in DOMAIN store
           /\ store[k] = last.pre[k]
      /\ last.op = "check" =>
           last.result = checkAndIncrement(Only(last.pre, OwnKey), OwnKey,
                                           last.limit, last.windowSec,
                                           last.at).result
      /\ last.op = "status" =>
           last.result = getStatus(Only(last.pre, OwnKey), OwnKey,
                                   last.limit, last.at)

\* C14 witness: checkIpRateLimit(x) opens a fresh record although email:x is
\* already at its limit.
C14_Witness ==
    /\ last.fn = "checkIpRateLimit"
    /\ last.limit = 1
    /\ "email:" \o last.raw \in DOMAIN last.pre
    /\ "ip:" \o last.raw \notin DOMAIN last.pre
    /\ last.at < last.pre["email:" \o last.raw].resetTime
    /\ last.result.allowed
    /\ store["ip:" \o last.raw].count = 1
    /\ store["email:" \o last.raw] = last.pre["email:" \o last.raw]

\* C15: getStatus leaves the store as it was; for a key without a record or
\* with now >= resetTime it returns count 0, remaining limit and no resetAt,
\* otherwise the record's count, max(0, limit - count) and resetTime.
C15_GetStatusReadsOnly ==
    last.op = "status" =>
      /\ store = last.pre
      /\ IF \/ last.key \notin DOMAIN last.pre
            \/ last.at >= last.pre[last.key].resetTime
         THEN last.result = [count |-> 0, remaining |-> last.limit,
                             resetAt |-> -1]
         ELSE LET e == last.pre[last.key] IN
              last.result = [count |-> e.count,
                             remaining |-> IF last.limit - e.count > 0
                                           THEN last.limit - e.count ELSE 0,
                             resetAt |-> e.resetTime]

\* C15 witness: getStatus exactly at resetTime reports an empty window and
\* the expired record is still stored.
C15_Witness ==
    /\ last.op = "status"
    /\ last.key \in DOMAIN store
    /\ last.at = store[last.key].resetTime
    /\ last.result.count = 0
    /\ last.result.resetAt = -1

\* C16: cleanup removes exactly the records with now >= resetTime, leaves
\* the others as they were and returns the number removed; a
\* checkAndIncrement or getStatus call removes no record and adds at most
\* the record of its own key.
C16_CleanupRemovesExpiredOnly ==
    /\ last.op = "cleanup" =>
         /\ DOMAIN store
              = {k \in DOMAIN last.pre : last.at < last.pre[k].resetTime}
         /\ \A k \in DOMAIN store : store[k] = last.pre[k]
         /\ last.result
              = Cardinality({k \in DOMAIN last.pre :
                               last.at >= last.pre[k].resetTime})
    /\ last.op \in {"check", "status"} =>
         /\ DOMAIN last.pre \subseteq DOMAIN store
         /\ DOMAIN store \ DOMAIN last.pre \subseteq {last.key}

\* C16 witness: cleanup exactly at the resetTime of one record removes it
\* and keeps the other.
C16_Witness ==
    /\ last.op = "cleanup"
    /\ last.result = 1
    /\ Cardinality(DOMAIN store) = 1
    /\ \E k \in DOMAIN last.pre : last.at = last.pre[k].resetTime

\* The start of the fixed window the i-th call of the burst falls in: the
\* first call opens a window, and so does every call made a whole window or
\* more after the start of the window before it.
RECURSIVE WindowStart(_)
WindowStart(i) ==
    IF i = 1 THEN hist[1].at
    ELSE IF hist[i].at >= WindowStart(i - 1) + env.RATE_LIMIT_WINDOW_SEC * 1000
         THEN hist[i].at
         ELSE WindowStart(i - 1)

\* The position of the i-th call among the calls of its window.
RankInWindow(i) ==
    Cardinality({j \in 1..i : WindowStart(j) = WindowStart(i)})

\* The allowed calls among calls i..j of the burst.
AllowedBetween(i, j) == {n \in i..j : hist[n].result.allowed}

\* C12: for one key and a limit L >= 1, the k-th call of a window returns
\* allowed=true and remaining L - k when k <= L, and allowed=false and
\* remaining 0 when k > L, every call of the window with the same resetAt.
C12_KthCallOfWindow ==
    \A i \in 1..Len(hist) :
      LET k == RankInWindow(i)
          r == hist[i].result
      IN
      /\ r.resetAt = WindowStart(i) + env.RATE_LIMIT_WINDOW_SEC * 1000
      /\ k <= env.RATE_LIMIT =>
           (r.allowed /\ r.remaining = env.RATE_LIMIT - k)
      /\ k > env.RATE_LIMIT => (~r.allowed /\ r.remaining = 0)

\* C12 witness: with limit 2, the first three calls of a window, made at
\* different times, are allowed, allowed and blocked.
C12_Witness ==
    /\ env.RATE_LIMIT = 2
    /\ Len(hist) >= 3
    /\ hist[1].at < hist[2].at
    /\ hist[2].at < hist[3].at
    /\ hist[1].result = Result(TRUE, 1, 1000)
    /\ hist[2].result = Result(TRUE, 0, 1000)
    /\ hist[3].result = Result(FALSE, 0, 1000)

Exhausted(st, key, limit, t) ==
    \/ limit <= 0
    \/ /\ key \in DOMAIN st
       /\ t < st[key].resetTime
       /\ st[key].count >= limit

\* Submission s arrives in this step.
Arrives(s) == sub[s].pc = "idle" /\ sub'[s].pc # "idle"

\* C18: a submission arriving from an origin whose quota is exhausted is
\* answered 429 with type 'ip', whatever its body - unparseable and invalid
\* bodies included.
C18_OriginCheckedBeforeParsing ==
    [][\A s \in Subs :
         (/\ Arrives(s)
          /\ Exhausted(store, IpKey(sub'[s].clientIP), env.RATE_LIMIT, now)) =>
           (sub'[s].status = 429 /\ sub'[s].rlType = "ip")]_vars

\* C19: a valid submission makes the origin check first; when that check
\* is blocked the answer is 429 with type 'ip', whatever the identity quota,
\* no identity check is made and no identity counter counts it; an answer of
\* type 'email' comes only after an allowed origin check; every rate-limit
\* rejection reports remaining 0.
C19_OriginBeforeIdentity ==
    /\ \A s \in Subs :
         LET c == sub[s].calls IN
         /\ (sub[s].pc # "idle" /\ sub[s].status \notin {400, 422}) =>
              /\ Len(c) >= 1
              /\ c[1].op = "checkIpRateLimit"
              /\ c[1].res = "blocked" =>
                   (sub[s].status = 429 /\ sub[s].rlType = "ip")
         /\ sub[s].rlType = "ip" =>
              /\ sub[s].status = 429
              /\ sub[s].rlRemaining = 0
              /\ c = <<Call("checkIpRateLimit", sub[s].clientIP, "blocked")>>
              /\ ~sub[s].emailRateLimit.allowed
         /\ sub[s].rlType = "email" =>
              /\ sub[s].status = 429
              /\ sub[s].rlRemaining = 0
              /\ sub[s].ipRateLimit.allowed
              /\ c = <<Call("checkIpRateLimit", sub[s].clientIP, "allowed"),
                       Call("checkEmailRateLimit", sub[s].email, "blocked")>>
         /\ sub[s].status = 429 => sub[s].rlType \in {"ip", "email"}
    /\ \A e \in ValidEmails :
         EmailKey(e) \in DOMAIN store =>
           store[EmailKey(e)].count
             = Cardinality({s \in Subs :
                  /\ sub[s].email = e
                  /\ \E i \in 1..Len(sub[s].calls) :
                       sub[s].calls[i]
                         = Call("checkEmailRateLimit", e, "allowed")
                  /\ sub[s].emailRateLimit.resetAt
                       = store[EmailKey(e)].resetTime})

\* C19 witness: a submission was rejected with type 'ip' although its
\* identity quota was exhausted as well.
C19_Witness ==
    /\ env.RATE_LIMIT = 1
    /\ \E s \in Subs :
         /\ sub[s].status = 429
         /\ sub[s].rlType = "ip"
         /\ EmailKey(sub[s].email) \in DOMAIN store
         /\ store[EmailKey(sub[s].email)].count = 1
         /\ now < store[EmailKey(sub[s].email)].resetTime

\* C20: the counter of a key equals the number of allowed checks on it in
\* its current window, whatever became of the submissions that made them:
\* an admitted submission has added one to its origin counter and one to
\* its identity counter, and ending with 200 or 502 takes nothing back.
C20_NoRefund ==
    /\ \A k \in DOMAIN store :
         store[k].count
           = Cardinality(IpGrants(k, store[k].resetTime)
                         \cup EmailGrants(k, store[k].resetTime))
    /\ \A s \in Subs :
         (sub[s].ipRateLimit.allowed /\ sub[s].emailRateLimit.allowed) =>
           /\ IpKey(sub[s].clientIP) \in DOMAIN store
           /\ EmailKey(sub[s].email) \in DOMAIN store
           /\ store[IpKey(sub[s].clientIP)].resetTime
                >= sub[s].ipRateLimit.resetAt
           /\ store[EmailKey(sub[s].email)].resetTime
                >= sub[s].emailRateLimit.resetAt

\* C20 witness: one submission ended 502 and another 200, both from the
\* same origin in the same window, and the origin counter is 2.
C20_Witness ==
    \E s, t \in Subs :
      /\ sub[s].status = 502
      /\ sub[t].status = 200
      /\ sub[s].clientIP = sub[t].clientIP
      /\ sub[s].ipRateLimit.resetAt = sub[t].ipRateLimit.resetAt
      /\ store[IpKey(sub[s].clientIP)].count = 2
      /\ store[IpKey(sub[s].clientIP)].resetTime = sub[s].ipRateLimit.resetAt

\* The logToChannel calls of a submission, and its other calls, in order.
Logs(s) == SelectSeq(sub[s].calls, LAMBDA c : c.op = "logToChannel")
NonLogs(s) == SelectSeq(sub[s].calls, LAMBDA c : c.op # "logToChannel")

\* The non-fatal steps of a submission whose call ended with an error.
FailedSteps(s) ==
    {step \in {"inviteGroup", "inviteGuest", "sendWelcomeEmail"} :
       \E i \in 1..Len(sub[s].calls) :
         sub[s].calls[i].op = step /\ sub[s].calls[i].res = "error"}

\* What the caller gets, and the failures the submission ended with.
Outcome(s) ==
    [status |-> sub[s].status, code |-> sub[s].code,
     message |-> sub[s].message, errors |-> sub[s].errors,
     rlType |-> sub[s].rlType, emailSent |-> sub[s].emailSent,
     failures |-> Range(sub[s].partialFailures)]

\* The outcome that validation, admission and the calls other than
\* logToChannel determine for a submission that has ended.
OutcomeWithoutLogs(s) ==
    LET c == NonLogs(s)
        v == validateAndSanitize(sub[s].req.body)
        none == [status |-> 0, code |-> "", message |-> "",
                 errors |-> <<>>, rlType |-> "", emailSent |-> TRUE,
                 failures |-> {}]
    IN  IF ~sub[s].req.body.json
        THEN [none EXCEPT !.status = 400, !.code = "INVALID_JSON",
                          !.message = "Invalid JSON in request body"]
        ELSE IF ~v.ok
        THEN [none EXCEPT !.status = 422, !.code = "VALIDATION_ERROR",
                          !.message = "Validation failed",
                          !.errors = v.errors]
        ELSE IF c[Len(c)].op = "checkIpRateLimit"
        THEN [none EXCEPT !.status = 429, !.code = "rate_limit",
                          !.message = "Rate limit exceeded", !.rlType = "ip"]
        ELSE IF c[Len(c)].op = "checkEmailRateLimit"
        THEN [none EXCEPT !.status = 429, !.code = "rate_limit",
                          !.message = "Rate limit exceeded",
                          !.rlType = "email"]
        ELSE IF c[Len(c)].op = "conversations.create"
        THEN [none EXCEPT !.status = 502, !.code = "SLACK_ERROR",
                          !.message = "Failed to create Slack channel"]
        ELSE [none EXCEPT !.status = 200, !.code = "ok",
                          !.emailSent = "sendWelcomeEmail" \notin FailedSteps(s),
                          !.failures = {StepName(x) : x \in FailedSteps(s)}]

ExpectedFailureList(s) ==
    LET f == SelectSeq(<<"inviteGroup", "inviteGuest", "sendWelcomeEmail">>,
                       LAMBDA x : x \in FailedSteps(s))
    IN  CASE Len(f) = 0 -> ""
          [] Len(f) = 1 -> StepName(f[1])
          [] Len(f) = 2 -> StepName(f[1]) \o ", " \o StepName(f[2])
          [] Len(f) = 3 -> StepName(f[1]) \o ", " \o StepName(f[2])
                             \o ", " \o StepName(f[3])

\* The text expected of the final log of a submission.
ExpectedSummary(s) ==
    LET about == " processed for " \o sub[s].email \o " (company: "
                   \o Join(sub[s].req.body.companyName) \o " -> "
                   \o sub[s].sanitizedCompanyName \o "), channel: "
                   \o sub[s].channelName \o " (C:" \o sub[s].channelName \o ")"
    IN  IF FailedSteps(s) = {}
        THEN "Submission successfully" \o about
        ELSE "Submission" \o about \o ". Partial failures: "
               \o ExpectedFailureList(s)

ExpectedWarning(s, step) ==
    LET where == sub[s].channelName \o " (C:" \o sub[s].channelName \o ")" IN
    CASE step = "inviteGroup" -> "Group invite failed for channel " \o where
      [] step = "inviteGuest" ->
           "Guest invite failed for " \o sub[s].email \o " to channel " \o where
      [] step = "sendWelcomeEmail" ->
           "Email sending failed for " \o sub[s].email \o ": "
             \o sub[s].emailResult.error

C24_FatalFailureLoggedBeforeReturn ==
    \A s \in Subs :
      LET c == sub[s].calls
          errors == {i \in 1..Len(c) :
                       c[i].op = "logToChannel" /\ c[i].arg = "error"}
      IN
      /\ sub[s].pc = "logChannelError" =>
           (sub[s].status = 0 /\ errors = {})
      /\ sub[s].status = 502 =>
           /\ errors = {Len(c)}
           /\ c[Len(c) - 1].op = "conversations.create"
           /\ sub[s].channelResult.error
                = IF c[Len(c) - 1].res = "name_taken"
                  THEN "max_attempts_exceeded"
                  ELSE ErrorFor(c[Len(c) - 1].res)
           /\ sub[s].channelResult.details # ""
           /\ c[Len(c)].text
                = "Channel creation failed for " \o sub[s].sanitizedCompanyName
                    \o ": " \o sub[s].channelResult.error
                    \o " - " \o sub[s].channelResult.details
      /\ sub[s].channelResult.ok => errors = {}

\* C24 witness: Slack rate-limited the creation request, and the error log
\* says so before the 502 answer.
C24_Witness ==
    \E s \in Subs :
      /\ sub[s].status = 502
      /\ sub[s].calls[Len(sub[s].calls)].text
           = "Channel creation failed for ab: rate_limited - "
               \o "Slack API rate limit exceeded"

\* C25: whatever error createChannel returned, the collision retries
\* running out included, the answer is the same: 502, SLACK_ERROR,
\* 'Failed to create Slack channel', and nothing else.
C25_GenericUpstreamFailure ==
    \A s \in Subs :
      (/\ sub[s].pc = "done"
       /\ ~sub[s].channelResult.ok
       /\ sub[s].channelResult.error # "") =>
        Outcome(s) = [status |-> 502, code |-> "SLACK_ERROR",
                      message |-> "Failed to create Slack channel",
                      errors |-> <<>>, rlType |-> "", emailSent |-> TRUE,
                      failures |-> {}]

\* C25 witness: an authentication error of Slack was answered with the
\* generic 502.
C25_Witness ==
    \E s \in Subs :
      /\ sub[s].pc = "done"
      /\ sub[s].status = 502
      /\ sub[s].channelResult.error = "invalid_auth"
      /\ sub[s].message = "Failed to create Slack channel"

\* The terminal state a status stands for.
TerminalState(status) ==
    CASE status = 200 -> "Succeeded"
      [] status \in {400, 422} -> "RejectedValidation"
      [] status = 429 -> "RejectedRateLimit"
      [] status = 502 -> "FailedUpstream"
      [] OTHER -> "none"

\* Submission s passed validation and both admission checks.
Admitted(s) ==
    /\ validateAndSanitize(sub[s].req.body).ok
    /\ sub[s].ipRateLimit.allowed
    /\ sub[s].emailRateLimit.allowed

\* C26 (as stated): a submission that has ended is in exactly one of the
\* four terminal states, and it is Succeeded if and only if it passed
\* validation and both admission checks and its channel creation and its
\* membership fetch succeeded.
C26_SucceededIffFatalStepsSucceeded ==
    \A s \in Subs :
      sub[s].pc = "done" =>
        /\ TerminalState(sub[s].status) # "none"
        /\ TerminalState(sub[s].status) = "Succeeded"
             <=> /\ Admitted(s)
                 /\ sub[s].channelResult.ok
                 /\ \E i \in 1..Len(sub[s].calls) :
                      /\ sub[s].calls[i].op = "getGroupUsers"
                      /\ sub[s].calls[i].res = "ok"

\* C26 (what the handler does): with every awaited call resolving, the
\* submission ends; once ended it is in exactly one terminal state and
\* takes no further step; and it is Succeeded if and only if it passed
\* validation and both admission checks and its channel was created.
C26_EndsInOneTerminalState ==
    /\ <>(sub["s1"].pc = "done")
    /\ [](sub["s1"].pc = "done" =>
            /\ TerminalState(sub["s1"].status) # "none"
            /\ TerminalState(sub["s1"].status) = "Succeeded"
                 <=> (Admitted("s1") /\ sub["s1"].channelResult.ok))
    /\ [][sub["s1"].pc = "done" => sub' = sub]_vars

\* C26 witness: a submission ended Succeeded with its channel created at
\* the fourth attempt and every later step failed.
C26_Witness ==
    /\ sub["s1"].pc = "done"
    /\ TerminalState(sub["s1"].status) = "Succeeded"
    /\ Len(Creates("s1")) = 4
    /\ FailedSteps("s1") = {"inviteGroup", "inviteGuest", "sendWelcomeEmail"}

\* The place of a collaborator call in the order the claims expect; the
\* request to Postmark is part of sendWelcomeEmail.
StepRank(op) ==
    CASE op = "conversations.create" -> 1
      [] op = "inviteGroup" -> 2
      [] op = "inviteGuest" -> 3
      [] op = "fetch" -> 4
      [] op = "sendWelcomeEmail" -> 4
      [] OTHER -> 0

\* The steps a submission has called.
Called(s) == {sub[s].calls[i].op : i \in 1..Len(sub[s].calls)}

Times(s, op) ==
    Cardinality({i \in 1..Len(sub[s].calls) : sub[s].calls[i].op = op})

\* C28: a submission calls the membership fetch, inviteGroup, inviteGuest
\* and sendWelcomeEmail (and its request to Postmark) at most once each,
\* failed or not; no log text is sent twice; and a creation request other
\* than the first is made only after the one before it was answered
\* name_taken.
C28_NoRetryButOnNameTaken ==
    \A s \in Subs :
      /\ \A op \in {"getGroupUsers", "inviteGroup", "inviteGuest",
                    "sendWelcomeEmail", "fetch"} : Times(s, op) <= 1
      /\ \A i, j \in 1..Len(Logs(s)) :
           i < j => Logs(s)[i].text # Logs(s)[j].text
      /\ \A k \in 2..Len(Creates(s)) :
           /\ Creates(s)[k - 1].res = "name_taken"
           /\ Creates(s)[k].arg # Creates(s)[k - 1].arg

\* C28 witness: the creation request was repeated after name_taken, and
\* the guest invite and the email, which both failed, were called once.
C28_Witness ==
    \E s \in Subs :
      /\ sub[s].pc = "done"
      /\ Len(Creates(s)) = 3
      /\ Creates(s)[2].res = "name_taken"
      /\ FailedSteps(s) = {"inviteGuest", "sendWelcomeEmail"}
      /\ Times(s, "inviteGuest") = 1
      /\ Times(s, "sendWelcomeEmail") = 1

C30_SanitizeIdempotent ==
    Len(sanitized) >= 3 => sanitized[3] = sanitized[2]

\* C30 (what the code does): sanitizing a sanitized text gives the same
\* text unless the sanitized text ends with a hyphen, which happens only
\* when it was cut to 67 characters right after a hyphen; then sanitizing
\* it again removes that hyphen and nothing else. From the second
\* application on the text no longer changes.
C30_IdempotentUnlessCutAfterHyphen ==
    Len(sanitized) >= 3 =>
      LET once == sanitized[2]
          twice == sanitized[3]
      IN
      /\ IF once # <<>> /\ once[Len(once)] = "-"
         THEN /\ Len(once) = SliceLen
              /\ twice = SubSeq(once, 1, SliceLen - 1)
         ELSE twice = once
      /\ Len(sanitized) >= 4 => sanitized[4] = twice

\* C30 witness: a text was cut to 67 characters right after a hyphen, and
\* sanitizing the result a second and a third time gave a text of 66.
C30_Witness ==
    /\ Len(sanitized) >= 4
    /\ Len(sanitized[2]) = SliceLen
    /\ sanitized[2][SliceLen] = "-"
    /\ Len(sanitized[3]) = SliceLen - 1
    /\ sanitized[4] = sanitized[3]

\* C31: the sanitized form of a text has at most 67 characters, all of
\* them lowercase letters, digits or hyphens; it does not start with a
\* hyphen and has no two hyphens in a row; and it ends with a hyphen only
\* when it has exactly 67 characters and is the start of a longer form
\* that the cut shortened.
C31_BoundedOutput ==
    Len(sanitized) >= 2 =>
      LET raw == sanitized[1]
          out == sanitized[2]
          uncut == TrimDashes(CollapseDashes(KeepSlugChars(WhitespaceToDash(
                     StripMarks(NormalizeNFD(MapLower(raw)))))))
      IN
      /\ Len(out) <= 67
      /\ \A i \in 1..Len(out) : out[i] \in LowerLetters \cup Digits \cup {"-"}
      /\ out # <<>> => out[1] # "-"
      /\ \A i \in 1..(Len(out) - 1) : ~(out[i] = "-" /\ out[i + 1] = "-")
      /\ (out # <<>> /\ out[Len(out)] = "-") =>
           /\ Len(out) = 67
           /\ Len(uncut) > 67
           /\ out = SubSeq(uncut, 1, 67)

\* C31 witness: a text with an accented letter and a blank after 66
\* letters was cut to 67 characters, the last of them a hyphen.
C31_Witness ==
    /\ Len(sanitized) = 2
    /\ Len(sanitized[1]) = 69
    /\ sanitized[1][67] = " "
    /\ sanitized[1][68] = "E-ACUTE"
    /\ Len(sanitized[2]) = 67
    /\ sanitized[2][67] = "-"

\* C32: a name made only of whitespace, punctuation and emoji sanitizes
\* to the empty text, and validateAndSanitize, given such a name in a
\* well-formed body, fails with the one error 'Company name contains no
\* valid characters after sanitization', which is none of the errors of a
\* malformed body; a malformed body fails with those other errors only;
\* and the result is ok exactly when the body passes the schema and the
\* sanitized name is not empty. (The result is read off the answer to a
\* preview request, which passes it on.)
C32_EmptySanitizedNameRejected ==
    previews.n >= 1 =>
      LET body == previews.req.body
          r == previews.response
          removable == /\ body.json /\ body.hasCompanyName
                       /\ body.companyName # <<>>
                       /\ \A i \in 1..Len(body.companyName) :
                            body.companyName[i] \in {" ", "TAB", "!", "EMOJI"}
          malformed == {"companyName: Required",
                        "companyName: Company name is required",
                        "email: Required", "email: Invalid email format"}
          empty == "Company name contains no valid characters after sanitization"
      IN
      /\ removable => sanitizeCompanyName(body.companyName) = <<>>
      /\ (removable /\ SchemaErrors(body) = <<>>) =>
           (r.status = 422 /\ r.errors = <<empty>>)
      /\ (body.json /\ SchemaErrors(body) # <<>>) =>
           /\ r.status = 422
           /\ r.errors # <<>>
           /\ Range(r.errors) \subseteq malformed
      /\ empty \notin malformed
      /\ r.status = 200
           <=> /\ body.json
               /\ SchemaErrors(body) = <<>>
               /\ sanitizeCompanyName(body.companyName) # <<>>
      /\ r.status = 200 =>
           r.sanitizedCompanyName = Join(sanitizeCompanyName(body.companyName))

\* C32 witness: a name of two emoji, sent with a valid email, was
\* rejected for having no valid characters.
C32_Witness ==
    /\ previews.n >= 1
    /\ previews.req.body.companyName = <<"EMOJI", "EMOJI">>
    /\ previews.req.body.email = "u@x.io"
    /\ previews.response.status = 422
    /\ previews.response.errors
         = <<"Company name contains no valid characters after sanitization">>

C34_PreviewOfNameAlone ==
    (previews.n >= 1 /\ previews.req.body.json /\ ~previews.req.body.hasEmail) =>
      LET body == previews.req.body
          r == previews.response
          identifier == sanitizeCompanyName(body.companyName)
      IN
      IF body.hasCompanyName /\ body.companyName # <<>> /\ identifier # <<>>
      THEN /\ r.status = 200
           /\ r.sanitizedCompanyName = Join(identifier)
           /\ \A s \in Subs :
                (sub[s].req.body.companyName = body.companyName
                   /\ sub[s].sanitizedCompanyName # "")
                  => sub[s].sanitizedCompanyName = r.sanitizedCompanyName
      ELSE r.status = 422 /\ r.errors # <<>>

\* C35: a submission rejected by the identity check has passed the origin
\* check, and the unit it took there stays on the origin's counter: the
\* counter is the number of submissions whose origin check was allowed,
\* whatever the identity check said, and a later submission's origin check
\* is allowed exactly when fewer than RATE_LIMIT earlier submissions from
\* its origin passed theirs. So identity-blocked submissions use up the
\* quota of their origin for other identities.
C35_IdentityBlockedStillCounts ==
    \A i \in 1..Len(Turns) :
      LET me == sub[Turns[i]]
          before == {j \in 1..(i - 1) :
                       /\ sub[Turns[j]].ipRateLimit.allowed
                       /\ sub[Turns[j]].clientIP = me.clientIP}
          passed == {j \in 1..Len(Turns) :
                       /\ sub[Turns[j]].ipRateLimit.allowed
                       /\ sub[Turns[j]].clientIP = me.clientIP}
      IN
      /\ me.rlType = "email" =>
           /\ me.ipRateLimit.allowed
           /\ ~me.emailRateLimit.allowed
           /\ IpKey(me.clientIP) \in DOMAIN store
           /\ store[IpKey(me.clientIP)].count = Cardinality(passed)
      /\ Len(me.calls) >= 1 =>
           (me.ipRateLimit.allowed <=> Cardinality(before) < env.RATE_LIMIT)

\* C35 witness: under a limit of 1, the second submission was blocked by
\* the identity check and the third, from the same origin with another
\* identity, by the origin check.
C35_Witness ==
    /\ env.RATE_LIMIT = 1
    /\ sub[Turns[1]].status = 200
    /\ sub[Turns[2]].rlType = "email"
    /\ sub[Turns[3]].rlType = "ip"
    /\ sub[Turns[3]].clientIP = sub[Turns[2]].clientIP
    /\ sub[Turns[3]].clientIP # sub[Turns[1]].clientIP
    /\ sub[Turns[3]].email # sub[Turns[2]].email

C37_CleanupTransparent ==
    LET Live(st) ==
          [k \in {x \in DOMAIN st : last.at < st[x].resetTime} |-> st[k]]
        expired == {k \in DOMAIN last.pre : last.at >= last.pre[k].resetTime}
        Without(D) == [k \in DOMAIN last.pre \ D |-> last.pre[k]]
    IN
    /\ last.op = "cleanup" => Live(store) = Live(last.pre)
    /\ last.op = "check" =>
         \A D \in SUBSET expired :
           LET without == checkAndIncrement(Without(D), last.key, last.limit,
                                            last.windowSec, last.at)
           IN  /\ without.result = last.result
               /\ Live(without.store) = Live(store)
    /\ last.op = "status" =>
         \A D \in SUBSET expired :
           getStatus(Without(D), last.key, last.limit, last.at) = last.result

\* C37 witness: a cleanup removed an expired record and kept the record of
\* a key that is exhausted for a limit of 1, which a check still blocks.
C37_Witness ==
    /\ last.op = "cleanup"
    /\ last.result = 1
    /\ \E k \in DOMAIN store :
         /\ now < store[k].resetTime
         /\ ~checkAndIncrement(store, k, 1, 1, now).result.allowed
         /\ getStatus(store, k, 1, now).remaining = 0

\* C38: a checkAndIncrement call on a key with no record, or at or after
\* the resetTime of its record, opens a window that ends windowSec seconds
\* after that call. A checkAndIncrement or getStatus call before the
\* resetTime leaves the resetTime as it is, allowed or blocked and whatever
\* windowSec it passes, and reports that resetTime; cleanup leaves it too.
\* So the window ends windowSec seconds after the call that opened it: a
\* key that has used its limit is blocked before that time and allowed
\* from that time on.
C38_WindowAnchoredAtFirstRequest ==
    LET k == last.key
        inside == k \in DOMAIN last.pre /\ last.at < last.pre[k].resetTime
    IN
    /\ (last.op \in {"check", "status"} /\ inside) =>
         /\ k \in DOMAIN store
         /\ store[k].resetTime = last.pre[k].resetTime
         /\ last.limit >= 1 => last.result.resetAt = last.pre[k].resetTime
    /\ (last.op = "check" /\ inside /\ last.limit >= 1) =>
         (last.result.allowed <=> last.pre[k].count < last.limit)
    /\ (last.op = "check" /\ ~inside /\ last.limit >= 1) =>
         /\ last.result.allowed
         /\ store[k] = Entry(1, last.at + last.windowSec * 1000)
         /\ last.result.resetAt = last.at + last.windowSec * 1000
    /\ last.op = "cleanup" =>
         \A x \in DOMAIN store : store[x] = last.pre[x]

\* C38 witness: a window opened at 0 for one second had a call allowed at
\* 999 that passed two seconds, and still ends at 1000.
C38_Witness ==
    /\ last.op = "check"
    /\ last.at = 999
    /\ last.windowSec = 2
    /\ last.result.allowed
    /\ last.key \in DOMAIN last.pre
    /\ last.pre[last.key].resetTime = 1000
    /\ store[last.key] = Entry(2, 1000)

\* C39: the origin check of a submission is made on CF-Connecting-IP when
\* the request has it, else on X-Forwarded-For, else on 'unknown', and the
\* limiter holds origin records under those keys only: a request with both
\* headers leaves no record for its X-Forwarded-For, and the submissions
\* with neither header are counted together under 'ip:unknown', so that
\* the origin check of such a submission is allowed exactly when fewer
\* than RATE_LIMIT submissions without headers passed it before.
C39_OriginKey ==
    LET origin(r) == IF r.cf # "" THEN r.cf
                     ELSE IF r.xff # "" THEN r.xff ELSE "unknown"
        checked == {i \in 1..Len(Turns) : Len(sub[Turns[i]].calls) >= 1}
        bare == {i \in checked : /\ sub[Turns[i]].req.cf = ""
                                 /\ sub[Turns[i]].req.xff = ""}
    IN
    /\ \A i \in checked :
         /\ sub[Turns[i]].calls[1].op = "checkIpRateLimit"
         /\ sub[Turns[i]].calls[1].arg = origin(sub[Turns[i]].req)
    /\ \A k \in DOMAIN store :
         \/ \E i \in checked : k = "ip:" \o origin(sub[Turns[i]].req)
         \/ \E i \in checked : k = "email:" \o sub[Turns[i]].email
    /\ bare # {} =>
         /\ "ip:unknown" \in DOMAIN store
         /\ store["ip:unknown"].count
              = Cardinality({i \in bare : sub[Turns[i]].ipRateLimit.allowed})
    /\ \A i \in bare :
         sub[Turns[i]].ipRateLimit.allowed
           <=> Cardinality({j \in bare : j < i}) < env.RATE_LIMIT

\* C39 witness: under a limit of 1, the second of two submissions without
\* origin headers was blocked by the origin check, and a third with both
\* headers passed it and left no record for its X-Forwarded-For.
C39_Witness ==
    /\ env.RATE_LIMIT = 1
    /\ sub[Turns[1]].req.cf = "" /\ sub[Turns[1]].req.xff = ""
    /\ sub[Turns[1]].ipRateLimit.allowed
    /\ sub[Turns[2]].req.cf = "" /\ sub[Turns[2]].req.xff = ""
    /\ sub[Turns[2]].rlType = "ip"
    /\ sub[Turns[2]].email # sub[Turns[1]].email
    /\ sub[Turns[3]].req.cf = "1.1.1.1" /\ sub[Turns[3]].req.xff = "2.2.2.2"
    /\ sub[Turns[3]].ipRateLimit.allowed
    /\ "ip:1.1.1.1" \in DOMAIN store
    /\ "ip:2.2.2.2" \notin DOMAIN store

====
